---- MODULE Spec2Model ----
(***************************************************************************)
(* The metadata tooling of the documentation build:                        *)
(*   docs/_extensions/json_output/core/json_formatter.py                   *)
(*       get_nested_value, normalize_metadata_for_json, JSONFormatter      *)
(*   docs/_extensions/json_output/core/json_writer.py                      *)
(*       JSONWriter                                                        *)
(*   docs/_extensions/rich_metadata/__init__.py                            *)
(*       normalize_metadata, get_nested_value, build_page_title,           *)
(*       build_meta_tags, build_json_ld, add_metadata_to_context           *)
(*   docs/scripts/transform_frontmatter.py                                 *)
(*       transform_frontmatter, extract_frontmatter, frontmatter_to_yaml,  *)
(*       process_file, main                                                *)
(*                                                                         *)
(* A Python value is the pair <<tag, payload>>.  The payload of a "str" is *)
(* a string, of a "bool" a BOOLEAN, of an "int" an integer, of a "list" a  *)
(* sequence of values and of a "dict" a function from key strings to       *)
(* values.  A raised exception is the value <<"error", name>>.             *)
(*                                                                         *)
(* Each part of the tooling has its own specification over the same four   *)
(* variables: Spec and SpecAccessor (the normalizers and the accessor),    *)
(* SpecParents and SpecProject (JSONFormatter), SpecWriter (JSONWriter),   *)
(* SpecPage (rich_metadata on a page), SpecExtract (the frontmatter of a   *)
(* markdown file), SpecRewrite (process_file on a file) and SpecMain (a    *)
(* run of the rewriter over the files found).                              *)
(***************************************************************************)
EXTENDS Integers, Sequences, FiniteSets, TLC

VARIABLES
    raw,    \* what the calls work on: the frontmatter record (a Python dict
            \* object on the heap), the build environment, the page, the file
    out,    \* what the last call returned (or the exception it raised); for
            \* the writer, the files written so far
    op,     \* the last operation
    arg     \* the arguments of the last call

vars == <<raw, out, op, arg>>

----------------------------------------------------------------------------
(* Bounds *)

\* most keys a generated frontmatter record holds
MaxKeys == 2
\* longest generated personas list
MaxLen == 2
\* longest path handed to get_nested_value
MaxPath == 3

----------------------------------------------------------------------------
(* Python values *)

PyStr(s)  == <<"str", s>>
PyBool(b) == <<"bool", b>>
PyInt(n)  == <<"int", n>>
None      == <<"none", "None">>
PyList(l) == <<"list", l>>
PyDict(d) == <<"dict", d>>
Err(e)    == <<"error", e>>

Tag(v) == v[1]
Val(v) == v[2]

EmptyMap == [k \in {} |-> None]
EmptyDict == PyDict(EmptyMap)

IsDict(v)  == Tag(v) = "dict"
IsList(v)  == Tag(v) = "list"
IsError(v) == Tag(v) = "error"

\* bool(v)
Truthy(v) ==
    CASE Tag(v) = "str"  -> Val(v) # ""
      [] Tag(v) = "bool" -> Val(v)
      [] Tag(v) = "int"  -> Val(v) # 0
      [] Tag(v) = "none" -> FALSE
      [] Tag(v) = "list" -> Len(Val(v)) > 0
      [] Tag(v) = "dict" -> DOMAIN Val(v) # {}
      [] Tag(v) = "error" -> FALSE

\* a or b
Or(a, b) == IF Truthy(a) THEN a ELSE b

\* d.get(k) on a dict d
DictGet(d, k) == IF k \in DOMAIN Val(d) THEN Val(d)[k] ELSE None

\* k in d on a dict d
HasKey(d, k) == k \in DOMAIN Val(d)

\* hash(v) succeeds: lists and dicts are unhashable
Hashable(v) == Tag(v) \notin {"list", "dict"}

\* {k: v} when cond, else nothing: one guarded assignment normalized[k] = v
Put(cond, k, v) == IF cond THEN k :> v ELSE EmptyMap

AlwaysWrap(x) == PyList(<<x>>)

\* x if isinstance(x, list) else [x]
AsList(x) == IF IsList(x) THEN x ELSE PyList(<<x>>)

----------------------------------------------------------------------------
(* json_output/core/json_formatter.py *)

\* the walk of get_nested_value from `current` along keys[i..]
RECURSIVE Walk(_, _, _, _)
Walk(current, keys, i, default) ==
    IF i > Len(keys) THEN current
    ELSE IF IsDict(current) /\ HasKey(current, keys[i])
         THEN Walk(Val(current)[keys[i]], keys, i + 1, default)
         ELSE default

RECURSIVE WalkTruthy(_, _, _, _)
WalkTruthy(current, keys, i, default) ==
    IF i > Len(keys) THEN current
    ELSE IF IsDict(current) /\ Truthy(DictGet(current, keys[i]))
         THEN WalkTruthy(Val(current)[keys[i]], keys, i + 1, default)
         ELSE default

get_nested_value_or_default(data, keys, default) == WalkTruthy(data, keys, 1, default)

get_nested_value(data, keys, default) == Walk(data, keys, 1, default)

\* audience_map / the first four entries of PERSONA_MAP
audience_map ==
    "data-scientist-focused" :> "Data Scientist" @@
    "mle-focused" :> "Machine Learning Engineer" @@
    "admin-focused" :> "Cluster Administrator" @@
    "devops-focused" :> "DevOps Professional"

\* map.get(p, p) for a str -> str map: hashing an unhashable p raises TypeError
MapGet(map, p) ==
    IF ~Hashable(p) THEN Err("TypeError")
    ELSE IF Tag(p) = "str" /\ Val(p) \in DOMAIN map THEN PyStr(map[Val(p)])
    ELSE p

\* [map.get(p, p) for p in personas] on a list personas
MapList(map, personas) ==
    LET l == Val(personas)
        mapped == [i \in 1..Len(l) |-> MapGet(map, l[i])]
    IN IF \E i \in 1..Len(l) : IsError(mapped[i])
       THEN Err("TypeError")
       ELSE PyList(mapped)

\* lines 95-109: content.audience, or else the legacy personas
JsonAudience(metadata) ==
    LET audience == get_nested_value(metadata, <<"content", "audience">>, None)
        personas == DictGet(metadata, "personas")
    IN IF ~Truthy(audience) /\ Truthy(personas)
       THEN IF IsList(personas)
            THEN MapList(audience_map, personas)
            ELSE PyList(<<personas>>)
       ELSE audience

\* if metadata.get(k): normalized[k] = metadata[k]
PassIfPresent(metadata, k) == Put(HasKey(metadata, k), k, DictGet(metadata, k))

PassIfTruthy(metadata, k) ==
    Put(Truthy(DictGet(metadata, k)), k, DictGet(metadata, k))

normalize_metadata_for_json(metadata) ==
    LET title_data == DictGet(metadata, "title")
        social_data == DictGet(metadata, "social")
        tags == DictGet(metadata, "tags")
        topics == Or(DictGet(metadata, "topics"), DictGet(metadata, "categories"))
        content_type == Or(get_nested_value(metadata, <<"content", "type">>, None),
                           DictGet(metadata, "content_type"))
        difficulty == Or(get_nested_value(metadata, <<"content", "difficulty">>, None),
                         DictGet(metadata, "difficulty"))
        audience == JsonAudience(metadata)
        content == Put(Truthy(content_type), "type", content_type) @@
                   Put(Truthy(difficulty), "difficulty", difficulty) @@
                   Put(Truthy(audience), "audience", AsList(audience))
        modality == Or(get_nested_value(metadata, <<"facets", "modality">>, None),
                       DictGet(metadata, "modality"))
        facets == Put(Truthy(modality), "modality", modality)
        dates == DictGet(metadata, "dates")
    IN IF IsError(audience) THEN audience
       ELSE PyDict(
            Put(IsDict(title_data), "title", title_data) @@
            Put(~IsDict(title_data) /\ Truthy(title_data), "title",
                PyDict("page" :> title_data)) @@
            PassIfTruthy(metadata, "description") @@
            Put(IsDict(social_data), "social", social_data) @@
            Put(Truthy(tags), "tags", AsList(tags)) @@
            Put(Truthy(topics), "topics", AsList(topics)) @@
            Put(Truthy(PyDict(content)), "content", PyDict(content)) @@
            Put(Truthy(PyDict(facets)), "facets", PyDict(facets)) @@
            Put(IsDict(dates), "dates", dates) @@
            PassIfTruthy(metadata, "status") @@
            PassIfTruthy(metadata, "only") @@
            PassIfTruthy(metadata, "cascade"))

----------------------------------------------------------------------------
(* rich_metadata/__init__.py *)

\* sub in s on two strings, for the strings the generated records hold
Substring(sub, s) == sub = s \/ (sub = "type" /\ s = "prototype")

\* key in c: "yes", "no", or "raise" (TypeError: argument is not iterable)
Contains(c, key) ==
    CASE Tag(c) = "dict" -> IF HasKey(c, key) THEN "yes" ELSE "no"
      [] Tag(c) = "list" -> IF \E i \in 1..Len(Val(c)) : Val(c)[i] = PyStr(key)
                            THEN "yes" ELSE "no"
      [] Tag(c) = "str"  -> IF Substring(key, Val(c)) THEN "yes" ELSE "no"
      [] OTHER -> "raise"

\* if legacy in normalized and key not in c: c[key] = value
\* st is [c |-> the container object, err |-> an exception was raised earlier]
SetIfMissing(st, legacy_present, key, value) ==
    IF st.err \/ ~legacy_present THEN st
    ELSE IF Contains(st.c, key) = "raise" THEN [st EXCEPT !.err = TRUE]
    ELSE IF Contains(st.c, key) = "yes" THEN st
    ELSE IF IsError(value) THEN [st EXCEPT !.err = TRUE]
    ELSE IF IsDict(st.c) THEN [st EXCEPT !.c = PyDict(key :> value @@ Val(st.c))]
    ELSE [st EXCEPT !.err = TRUE]

\* lines 94-105: the audience built from the legacy personas
RichAudience(personas) ==
    IF IsList(personas) THEN MapList(audience_map, personas)
    ELSE PyList(<<personas>>)

\* the content object after lines 79-105, and whether they raised
RichContent(metadata) ==
    LET c0 == [c |-> IF HasKey(metadata, "content")
                     THEN Val(metadata)["content"] ELSE EmptyDict,
               err |-> FALSE]
        c1 == SetIfMissing(c0, HasKey(metadata, "content_type"), "type",
                           DictGet(metadata, "content_type"))
        c2 == SetIfMissing(c1, HasKey(metadata, "difficulty"), "difficulty",
                           DictGet(metadata, "difficulty"))
    IN SetIfMissing(c2, HasKey(metadata, "personas"), "audience",
                    RichAudience(DictGet(metadata, "personas")))

\* the facets object after lines 116-120, and whether anything raised so far
RichFacets(metadata) ==
    LET f0 == [c |-> IF HasKey(metadata, "facets")
                     THEN Val(metadata)["facets"] ELSE EmptyDict,
               err |-> RichContent(metadata).err]
    IN SetIfMissing(f0, HasKey(metadata, "modality"), "modality",
                    DictGet(metadata, "modality"))

\* what normalize_metadata returns
normalize_metadata(metadata) ==
    IF RichFacets(metadata).err THEN Err("TypeError")
    ELSE PyDict(
        "content" :> RichContent(metadata).c @@
        "facets" :> RichFacets(metadata).c @@
        Put(HasKey(metadata, "categories") /\ ~HasKey(metadata, "topics"),
            "topics", DictGet(metadata, "categories")) @@
        Val(metadata))

\* the caller's record after normalize_metadata: `normalized` is a shallow copy,
\* so metadata["content"] and metadata["facets"] are the objects it assigned into
MetadataAfterNormalize(metadata) ==
    PyDict(
        Put(HasKey(metadata, "content"), "content", RichContent(metadata).c) @@
        Put(HasKey(metadata, "facets"), "facets", RichFacets(metadata).c) @@
        Val(metadata))

----------------------------------------------------------------------------
(* scripts/transform_frontmatter.py *)

PERSONA_MAP ==
    audience_map @@
    "Data Scientists" :> "Data Scientist" @@
    "Machine Learning Engineers" :> "Machine Learning Engineer" @@
    "Cluster Administrators" :> "Cluster Administrator" @@
    "DevOps Professionals" :> "DevOps Professional"

CONTENT_TYPE_MAP ==
    "tutorial" :> "Tutorial" @@ "concept" :> "Concept" @@
    "reference" :> "Reference" @@ "workflow" :> "Workflow" @@
    "index" :> "Index" @@ "example" :> "Example" @@
    "troubleshooting" :> "Troubleshooting" @@
    "get-started" :> "Get Started" @@ "getting-started" :> "Get Started"

DIFFICULTY_MAP ==
    "beginner" :> "Beginner" @@ "intermediate" :> "Intermediate" @@
    "advanced" :> "Advanced" @@ "reference" :> "Intermediate"

\* str.lower() on the strings the generated records hold
Lower(s) ==
    CASE s = "" -> ""
      [] s = "tutorial" -> "tutorial"
      [] s = "how-to" -> "how-to"
      [] s = "beginner" -> "beginner"
      [] s = "Expert" -> "expert"

\* str.title() on the strings the generated records hold
Title(s) ==
    CASE s = "" -> ""
      [] s = "tutorial" -> "Tutorial"
      [] s = "how-to" -> "How-To"
      [] s = "beginner" -> "Beginner"
      [] s = "Expert" -> "Expert"

\* map.get(x.lower(), x.title()): a value without .lower raises AttributeError
MapGetLower(map, x) ==
    IF Tag(x) # "str" THEN Err("AttributeError")
    ELSE IF Lower(Val(x)) \in DOMAIN map THEN PyStr(map[Lower(Val(x))])
    ELSE PyStr(Title(Val(x)))

\* "content" in fm and isinstance(fm["content"], dict) and key in fm["content"]
InContent(fm, key) ==
    /\ HasKey(fm, "content")
    /\ IsDict(Val(fm)["content"])
    /\ HasKey(Val(fm)["content"], key)

\* lines 146-167: the content dict, or the first exception raised
TransformContent(fm) ==
    LET c == Val(Val(fm)["content"])
        type == IF InContent(fm, "type") THEN c["type"]
                ELSE MapGetLower(CONTENT_TYPE_MAP, DictGet(fm, "content_type"))
        has_type == InContent(fm, "type") \/ HasKey(fm, "content_type")
        difficulty == IF InContent(fm, "difficulty") THEN c["difficulty"]
                      ELSE MapGetLower(DIFFICULTY_MAP, DictGet(fm, "difficulty"))
        has_difficulty == InContent(fm, "difficulty") \/ HasKey(fm, "difficulty")
        personas == DictGet(fm, "personas")
        audience == IF InContent(fm, "audience") THEN c["audience"]
                    ELSE IF IsList(personas) THEN MapList(PERSONA_MAP, personas)
                    ELSE IF IsError(MapGet(PERSONA_MAP, personas))
                         THEN Err("TypeError")
                         ELSE PyList(<<MapGet(PERSONA_MAP, personas)>>)
        has_audience == InContent(fm, "audience") \/ HasKey(fm, "personas")
    IN IF has_type /\ IsError(type) THEN type
       ELSE IF has_difficulty /\ IsError(difficulty) THEN difficulty
       ELSE IF has_audience /\ IsError(audience) THEN audience
       ELSE PyDict(Put(has_type, "type", type) @@
                   Put(has_difficulty, "difficulty", difficulty) @@
                   Put(has_audience, "audience", audience))

\* lines 173-178
TransformFacets(fm) ==
    IF HasKey(fm, "facets") /\ IsDict(Val(fm)["facets"]) THEN Val(fm)["facets"]
    ELSE PyDict(Put(HasKey(fm, "modality"), "modality", DictGet(fm, "modality")))

\* lines 197-205: title.page and title.social of a dict title
TransformTitle(fm) ==
    LET t == DictGet(fm, "title")
    IN IF IsDict(t)
       THEN PyDict(Put(HasKey(t, "page"), "page", DictGet(t, "page")) @@
                   Put(HasKey(t, "social"), "social", DictGet(t, "social")))
       ELSE EmptyDict

transform_frontmatter(fm) ==
    LET categories == DictGet(fm, "categories")
        content == TransformContent(fm)
        facets == TransformFacets(fm)
        title == TransformTitle(fm)
        Same(k) == Put(HasKey(fm, k), k, DictGet(fm, k))
    IN IF IsError(content) THEN content
       ELSE PyDict(
            Same("description") @@
            Same("topics") @@
            Put(~HasKey(fm, "topics") /\ HasKey(fm, "categories"), "topics",
                AsList(categories)) @@
            Same("tags") @@
            Put(Truthy(content), "content", content) @@
            Put(Truthy(facets), "facets", facets) @@
            Same("status") @@ Same("dates") @@ Same("social") @@ Same("only") @@
            Put(Truthy(title), "title", title))

----------------------------------------------------------------------------
(* The frontmatter records the operations are applied to *)

Keys == {"title", "description", "social", "tags", "topics", "categories",
         "content", "content_type", "difficulty", "personas", "facets",
         "modality", "dates", "status", "only", "cascade"}

\* a persona token, a token PersonaMap does not know, and an unhashable element
PersonaTokens == {PyStr("mle-focused"), PyStr("unknown-x"), PyList(<<>>)}

RECURSIVE ListsUpTo(_, _)
ListsUpTo(S, n) ==
    IF n = 0 THEN {<<>>}
    ELSE LET shorter == ListsUpTo(S, n - 1)
         IN shorter \cup {Append(l, x) : l \in shorter, x \in S}

\* the values a YAML block may give each key
Pool(k) ==
    CASE k = "title" -> {PyStr("Guide"), PyStr(""),
                         PyDict("page" :> PyStr("Guide") @@ "nav" :> PyStr("G"))}
      [] k = "description" -> {PyStr("About"), PyStr("")}
      [] k = "social" -> {PyDict("image" :> PyStr("a.png")), PyStr("a.png")}
      [] k = "tags" -> {PyStr("gpu"), PyList(<<PyStr("gpu")>>), PyList(<<>>), PyStr("")}
      [] k = "topics" -> {PyList(<<PyStr("B")>>), PyStr("B"), PyList(<<>>), PyStr("")}
      [] k = "categories" -> {PyList(<<PyStr("A")>>), PyStr("A")}
      [] k = "content" -> {EmptyDict, None, PyStr("prototype"),
                           PyList(<<PyStr("audience")>>),
                           PyDict("type" :> PyStr("Concept")),
                           PyDict("type" :> PyStr("")),
                           PyDict("audience" :> PyStr("Data Scientist")),
                           PyDict("difficulty" :> PyStr("") @@ "audience" :> PyList(<<>>))}
      [] k = "content_type" -> {PyStr("tutorial"), PyStr("how-to"), PyStr(""), PyInt(5)}
      [] k = "difficulty" -> {PyStr("beginner"), PyStr("Expert"), PyStr("")}
      [] k = "personas" -> {PyStr("mle-focused"), PyStr("unknown-x")} \cup
                           {PyList(l) : l \in ListsUpTo(PersonaTokens, MaxLen)}
      [] k = "facets" -> {EmptyDict, PyInt(1),
                          PyDict("modality" :> PyStr("text-only")),
                          PyDict("modality" :> PyStr(""))}
      [] k = "modality" -> {PyStr("universal"), PyStr("")}
      [] k = "dates" -> {PyDict("last_updated" :> PyStr("2025-01-01")), PyStr("2025-01-01")}
      [] k = "status" -> {PyStr("draft"), PyStr(""), PyBool(FALSE)}
      [] k = "only" -> {PyStr("not ga"), PyInt(0), PyBool(TRUE)}
      [] k = "cascade" -> {PyDict("product" :> PyDict("name" :> PyStr("Curator"))),
                           EmptyDict}

----------------------------------------------------------------------------
(* The normalizers applied to a frontmatter record *)

NoArg == <<<<>>, None>>

Init ==
    /\ raw = EmptyDict
    /\ out = None
    /\ op = "init"
    /\ arg = NoArg

\* yaml.safe_load builds the frontmatter record one key at a time; a record is
\* complete, and handed on, with any number of keys up to MaxKeys
LoadKey ==
    /\ op \in {"init", "load"}
    /\ Cardinality(DOMAIN Val(raw)) < MaxKeys
    /\ \E k \in Keys \ DOMAIN Val(raw) : \E v \in Pool(k) :
          raw' = PyDict(k :> v @@ Val(raw))
    /\ op' = "load"
    /\ UNCHANGED <<out, arg>>

\* normalize_metadata_for_json(raw)
NormalizeForJson ==
    /\ out' = normalize_metadata_for_json(raw)
    /\ op' = "json"
    /\ UNCHANGED <<raw, arg>>

\* normalize_metadata(raw): returns the normalized record and, through the
\* shared content and facets objects, changes the caller's record
NormalizeRich ==
    /\ out' = normalize_metadata(raw)
    /\ raw' = MetadataAfterNormalize(raw)
    /\ op' = "rich"
    /\ UNCHANGED arg

\* transform_frontmatter(raw)
TransformFrontmatter ==
    /\ out' = transform_frontmatter(raw)
    /\ op' = "transform"
    /\ UNCHANGED <<raw, arg>>

Next == LoadKey \/ NormalizeForJson \/ NormalizeRich \/ TransformFrontmatter

Spec == Init /\ [][Next]_vars

----------------------------------------------------------------------------
(* The accessor applied to a value *)

Segments == {"content", "type", "cascade", "product", "name"}

Paths == ListsUpTo(Segments, MaxPath)

Defaults == {None, PyStr("fallback")}

\* values handed to get_nested_value: records of one to three levels, a
\* record holding a null, a falsy value or a scalar on the way, and non-records
AccessorData ==
    {EmptyDict, None, PyStr("content"), PyList(<<PyStr("content")>>),
     PyDict("content" :> PyDict("type" :> PyStr("Concept"))),
     PyDict("content" :> PyDict("type" :> PyStr(""))),
     PyDict("content" :> PyDict("type" :> None)),
     PyDict("content" :> PyStr("type")),
     PyDict("content" :> None @@ "type" :> PyList(<<>>)),
     PyDict("cascade" :> PyDict("product" :> PyDict("name" :> PyStr("Curator")))),
     PyDict("cascade" :> PyDict("product" :> PyDict("name" :> PyInt(0)))),
     PyDict("cascade" :> PyDict("product" :>
            PyDict("name" :> PyDict("name" :> PyBool(FALSE)))))}

InitAccessor ==
    /\ raw \in AccessorData
    /\ out = None
    /\ op = "init"
    /\ arg = NoArg

\* get_nested_value(data, *keys, default=default)
GetNestedValue ==
    \E keys \in Paths : \E default \in Defaults :
        /\ out' = get_nested_value(raw, keys, default)
        /\ arg' = <<keys, default>>
        /\ op' = "get"
        /\ UNCHANGED raw

NextAccessor == GetNestedValue

SpecAccessor == InitAccessor /\ [][NextAccessor]_vars

----------------------------------------------------------------------------
(* Properties of the normalizers and the accessor *)

\* reading a field of a record in a property: Missing when the key is absent
Missing == <<"missing", "">>
Top(o, k) == IF IsDict(o) /\ HasKey(o, k) THEN Val(o)[k] ELSE Missing
Sub(o, a, b) == Top(Top(o, a), b)

Present(v) == v # Missing
NonEmpty(v) == Present(v) /\ Truthy(v)

\* [v] for a scalar v, v itself for a list
Listed(v) == IF Tag(v) = "list" THEN v ELSE <<"list", <<v>>>>

Returned(kinds) == op \in kinds /\ ~IsError(out)

\* C1: normalization is idempotent: applying normalize_metadata_for_json to the
\* record it returned gives that record again, and so does
\* rich_metadata.normalize_metadata on its own output (a call that raised has
\* no output to apply it to: the composition raises the same error).
C1_Idempotent ==
    /\ Returned({"json"}) => normalize_metadata_for_json(out) = out
    /\ Returned({"rich"}) => normalize_metadata(out) = out

\* a record with legacy keys and scalars where lists are expected was
\* normalized by the JSON normalizer into a record with content and topics
C1_Witness ==
    /\ Returned({"json"})
    /\ Present(Top(raw, "personas")) /\ Present(Top(raw, "categories"))
    /\ Tag(Top(raw, "categories")) = "str"
    /\ Present(Sub(out, "content", "audience")) /\ Present(Top(out, "topics"))

\* the canonical field the precedence rule gives: the v2 field when it is
\* present (whatever its value), else the legacy field, else no key
ByPrecedence(v2, legacy) ==
    IF Present(v2) THEN (IF Truthy(v2) THEN v2 ELSE Missing)
    ELSE IF Present(legacy) /\ Truthy(legacy) THEN legacy
    ELSE Missing

ListByPrecedence(v2, legacy) ==
    IF ByPrecedence(v2, legacy) = Missing THEN Missing
    ELSE Listed(ByPrecedence(v2, legacy))

\* C2: in normalize_metadata_for_json, for topics/categories,
\* content.type/content_type, content.difficulty/difficulty,
\* content.audience/personas and facets.modality/modality, a v2 field that is
\* present (even empty) decides the canonical value and the legacy field is not
\* used; the legacy field is used only when the v2 field is absent; with both
\* absent the key is absent.
C2_Precedence ==
    Returned({"json"}) =>
        /\ Top(out, "topics") =
              ListByPrecedence(Top(raw, "topics"), Top(raw, "categories"))
        /\ Sub(out, "content", "type") =
              ByPrecedence(Sub(raw, "content", "type"), Top(raw, "content_type"))
        /\ Sub(out, "content", "difficulty") =
              ByPrecedence(Sub(raw, "content", "difficulty"), Top(raw, "difficulty"))
        /\ Present(Sub(raw, "content", "audience")) =>
              Sub(out, "content", "audience") =
                 ListByPrecedence(Sub(raw, "content", "audience"), Missing)
        /\ (~Present(Sub(raw, "content", "audience")) /\ ~Present(Top(raw, "personas")))
              => ~Present(Sub(out, "content", "audience"))
        /\ Sub(out, "facets", "modality") =
              ByPrecedence(Sub(raw, "facets", "modality"), Top(raw, "modality"))

\* C3: the record a normalizer returns holds `content` only if one of
\* content.type, content.difficulty, content.audience is non-empty, and holds
\* `facets` only if facets.modality is non-empty.
C3_NoEmptyPlaceholder ==
    Returned({"json", "rich"}) =>
        /\ Present(Top(out, "content")) =>
              \/ NonEmpty(Sub(out, "content", "type"))
              \/ NonEmpty(Sub(out, "content", "difficulty"))
              \/ NonEmpty(Sub(out, "content", "audience"))
        /\ Present(Top(out, "facets")) => NonEmpty(Sub(out, "facets", "modality"))

PassthroughKeys == {"tags", "description", "status", "only", "cascade"}

\* C4 as stated: in normalize_metadata_for_json each of tags, description,
\* status, only, cascade is omitted when its raw value is falsy and is present
\* with that very value when its raw value is truthy.
C4_PassthroughAsStated ==
    Returned({"json"}) =>
        \A k \in PassthroughKeys :
            Top(out, k) = IF NonEmpty(Top(raw, k)) THEN Top(raw, k) ELSE Missing

\* C4 (amended): in normalize_metadata_for_json each of tags, description,
\* status, only, cascade is omitted when its raw value is falsy; a truthy
\* description, status, only or cascade is present with that value, and a
\* truthy tags value is present as itself when it is a list and as the
\* singleton list [v] when it is a scalar v.
C4_FalsyGate ==
    Returned({"json"}) =>
        \A k \in PassthroughKeys :
            Top(out, k) = IF ~NonEmpty(Top(raw, k)) THEN Missing
                          ELSE IF k = "tags" THEN Listed(Top(raw, k))
                          ELSE Top(raw, k)

\* status: false was given and the canonical record has no status key
C4_Witness ==
    /\ Returned({"json"})
    /\ Top(raw, "status") = PyBool(FALSE)
    /\ ~Present(Top(out, "status"))

\* PersonaMap of the specification
PersonaMapped(p) ==
    CASE p = PyStr("data-scientist-focused") -> PyStr("Data Scientist")
      [] p = PyStr("mle-focused") -> PyStr("Machine Learning Engineer")
      [] p = PyStr("admin-focused") -> PyStr("Cluster Administrator")
      [] p = PyStr("devops-focused") -> PyStr("DevOps Professional")
      [] OTHER -> p

IsStr(v) == Tag(v) = "str"

\* C5: with content.audience absent and personas present (a token or a
\* non-empty list of tokens), the canonical content.audience is the list of the
\* tokens mapped through PersonaMap, unmapped tokens verbatim, order and length
\* kept; a scalar p gives [PersonaMap(p)].
C5_PersonaMapping ==
    LET personas == Top(raw, "personas")
        audience == Sub(out, "content", "audience")
    IN (/\ Returned({"json", "rich"})
        /\ ~Present(Sub(raw, "content", "audience"))
        /\ NonEmpty(personas))
       => /\ IsStr(personas) => audience = <<"list", <<PersonaMapped(personas)>>>>
          /\ (Tag(personas) = "list" /\ \A i \in 1..Len(Val(personas)) : IsStr(Val(personas)[i]))
                => /\ Present(audience) /\ Tag(audience) = "list"
                   /\ Len(Val(audience)) = Len(Val(personas))
                   /\ \A i \in 1..Len(Val(personas)) :
                         Val(audience)[i] = PersonaMapped(Val(personas)[i])

\* C6: in the record returned by normalize_metadata_for_json,
\* rich_metadata.normalize_metadata and transform_frontmatter each of tags,
\* topics and content.audience, when present, is a list.
C6_ListTyped ==
    Returned({"json", "rich", "transform"}) =>
        \A v \in {Top(out, "tags"), Top(out, "topics"), Sub(out, "content", "audience")} :
            Present(v) => Tag(v) = "list"

\* C7: normalize_metadata_for_json and rich_metadata.normalize_metadata return
\* a record for every raw record and never raise.
C7_Total == op \in {"json", "rich"} => ~IsError(out)

\* C8: transform_frontmatter(raw) equals normalize_metadata_for_json(raw).
C8_RewriteIsNormalizer ==
    op = "transform" => out = normalize_metadata_for_json(raw)

\* C9: a call of normalize_metadata_for_json or rich_metadata.normalize_metadata
\* leaves the raw record, its nested content and facets records included, as
\* it was.
C9_Pure == [][op' \in {"json", "rich"} => raw' = raw]_vars

\* the value at a path, read from the last segment backwards
RECURSIVE ValueAt(_, _)
ValueAt(data, path) ==
    IF path = <<>> THEN data
    ELSE Val(ValueAt(data, SubSeq(path, 1, Len(path) - 1)))[path[Len(path)]]

\* every segment of the path is a key of the record reached before it
RECURSIVE Resolves(_, _)
Resolves(data, path) ==
    \/ path = <<>>
    \/ LET front == SubSeq(path, 1, Len(path) - 1)
       IN /\ Resolves(data, front)
          /\ IsDict(ValueAt(data, front))
          /\ path[Len(path)] \in DOMAIN Val(ValueAt(data, front))

\* C10: get_nested_value never raises; it returns the value at the path when
\* every segment is a key of a record reached along the walk (a null or falsy
\* value included), the default otherwise, and data itself for the empty path.
C10_Accessor ==
    op = "get" =>
        /\ ~IsError(out)
        /\ out = IF Resolves(raw, arg[1]) THEN ValueAt(raw, arg[1]) ELSE arg[2]
        /\ arg[1] = <<>> => out = raw

\* a falsy value found two levels down was returned instead of the default
C10_Witness ==
    /\ op = "get"
    /\ Len(arg[1]) = 2
    /\ Resolves(raw, arg[1])
    /\ out = PyStr("")
    /\ arg[2] = PyStr("fallback")

----------------------------------------------------------------------------
(* json_output/core/json_formatter.py: JSONFormatter._get_parent_path *)

\* most path segments of a generated document id
MaxDepth == 3
\* most documents of a generated environment
MaxDocs == 2

\* s[i]
Char(s, i) == SubSeq(s, i, i)

\* s.split("/"), scanning from position i with the segment `cur` begun
RECURSIVE SplitFrom(_, _, _)
SplitFrom(s, i, cur) ==
    IF i > Len(s) THEN <<cur>>
    ELSE IF Char(s, i) = "/" THEN <<cur>> \o SplitFrom(s, i + 1, "")
    ELSE SplitFrom(s, i + 1, cur \o Char(s, i))

Split(s) == SplitFrom(s, 1, "")

\* "/".join(parts)
RECURSIVE Join(_)
Join(parts) ==
    IF parts = <<>> THEN ""
    ELSE IF Len(parts) = 1 THEN parts[1]
    ELSE parts[1] \o "/" \o Join(Tail(parts))

\* x in l on a list of strings
InSeq(x, l) == \E i \in 1..Len(l) : l[i] = x

\* lines 224-227: parent_path for the loop index i = j - 1
ParentPath(parts, j) ==
    IF j = 1 THEN parts[1] \o "/index"
    ELSE Join(SubSeq(parts, 1, j)) \o "/index"

\* line 231: what is appended for the loop index i = j - 1
ParentEntry(parts, j) ==
    IF parts[j] # "index" THEN ParentPath(parts, j)
    ELSE Join(SubSeq(parts, 1, j - 1)) \o "/index"

\* line 230: parent_path in self.env.all_docs or parts[i] == "index"
ParentListed(parts, j, all_docs) ==
    ParentPath(parts, j) \in all_docs \/ parts[j] = "index"

\* lines 223-231: the loop over i in range(n)
RECURSIVE ParentLoop(_, _, _)
ParentLoop(parts, n, all_docs) ==
    IF n = 0 THEN <<>>
    ELSE LET before == ParentLoop(parts, n - 1, all_docs)
         IN IF ParentListed(parts, n, all_docs)
            THEN Append(before, ParentEntry(parts, n))
            ELSE before

RootAlways(docname, all_docs) == docname # "index"

\* lines 234, 237-239: docname != "index" and "index" in self.env.all_docs
RootListed(docname, all_docs) == docname # "index" /\ "index" \in all_docs

_get_parent_path(docname, all_docs) ==
    LET parts == Split(docname)
    IN IF Len(parts) > 1
       THEN LET parents == ParentLoop(parts, Len(parts) - 1, all_docs)
            IN IF RootListed(docname, all_docs) /\ ~InSeq("index", parents)
               THEN <<"index">> \o parents
               ELSE parents
       ELSE IF RootListed(docname, all_docs) THEN <<"index">> ELSE <<>>

----------------------------------------------------------------------------
(* json_output/core/json_formatter.py: JSONFormatter, the document record *)

\* data[k] = v on the keys-to-values map of a dict
Set(data, k, v) == (k :> v) @@ data

\* if cond: data[k] = v
SetIf(cond, data, k, v) == IF cond THEN Set(data, k, v) ELSE data

\* d.get(k, default) on a dict d
DictGetOr(d, k, default) == IF HasKey(d, k) THEN Val(d)[k] ELSE default

\* l[:n] on a list, n >= 0
Prefix(l, n) == SubSeq(l, 1, IF n < Len(l) THEN n ELSE Len(l))

\* c.isspace() for the characters str.split() splits on
IsSpace(c) == c \in {" ", "\t", "\n", "\r"}

\* len(s.split()): the maximal runs of non-whitespace characters
WordCount(s) ==
    Cardinality({i \in 1..Len(s) :
        ~IsSpace(Char(s, i)) /\ (i = 1 \/ IsSpace(Char(s, i - 1)))})

NeverTruncate(text, max_length) == text

\* lines 396-397, 412-413: text[:max_length] + "..." beyond a positive limit
Truncate(text, max_length) ==
    IF max_length > 0 /\ Len(text) > max_length
    THEN SubSeq(text, 1, max_length) \o "..."
    ELSE text

\* lines 250-286: the fields copied when normalized.get(k) is truthy
CopiedFields == {"description", "tags", "topics", "content", "facets",
                 "social", "dates", "status", "only"}

\* if normalized.get(k): data[k] = normalized[k], for each of the fields
CopyFields(data, normalized) ==
    [k \in {f \in CopiedFields : Truthy(DictGet(normalized, f))} |-> Val(normalized)[k]]
    @@ data

\* lines 244-290
add_metadata_fields(data, metadata) ==
    SetIf(Truthy(DictGet(metadata, "author")),
          CopyFields(data, normalize_metadata_for_json(metadata)),
          "author", DictGet(metadata, "author"))

\* lines 388-402
_add_primary_content(data, content_data, config) ==
    LET content == Val(DictGet(content_data, "content"))
    IN IF ~Truthy(DictGet(content_data, "content")) THEN data
       ELSE "content" :> PyStr(Truncate(content, config.content_max_length)) @@
            "format" :> DictGetOr(content_data, "format", PyStr("text")) @@
            "content_length" :> PyInt(Len(content)) @@
            "word_count" :> PyInt(IF content # "" THEN WordCount(content) ELSE 0) @@
            data

\* lines 404-415
_add_summary_content(data, content_data, config) ==
    LET summary == Val(DictGet(content_data, "summary"))
    IN SetIf(Truthy(DictGet(content_data, "summary")), data, "summary",
             PyStr(Truncate(summary, config.summary_max_length)))

\* " ".join(h["text"] for h in headings[i..])
RECURSIVE HeadingsText(_, _)
HeadingsText(headings, i) ==
    IF i > Len(headings) THEN ""
    ELSE IF i = Len(headings) THEN Val(Val(headings[i])["text"])
    ELSE Val(Val(headings[i])["text"]) \o " " \o HeadingsText(headings, i + 1)

\* lines 417-427
_add_headings_content(data, content_data) ==
    LET headings == Val(DictGet(content_data, "headings"))
        Simple(h) == PyDict("text" :> Val(h)["text"] @@ "level" :> Val(h)["level"] @@
                            "id" :> DictGetOr(h, "id", PyStr("")))
    IN IF ~Truthy(DictGet(content_data, "headings")) THEN data
       ELSE "headings" :> PyList([i \in 1..Len(headings) |-> Simple(headings[i])]) @@
            "headings_text" :> PyStr(HeadingsText(headings, 1)) @@
            data

\* lines 429-445
_add_optional_features(data, content_data, config) ==
    LET keywords == Val(DictGet(content_data, "keywords"))
        Feature(d, on, k) == SetIf(on /\ HasKey(content_data, k), d, k,
                                   DictGet(content_data, k))
        d1 == SetIf(config.extract_keywords /\ HasKey(content_data, "keywords"),
                    data, "keywords",
                    IF config.keywords_max_count > 0
                    THEN PyList(Prefix(keywords, config.keywords_max_count))
                    ELSE PyList(keywords))
    IN Feature(Feature(Feature(d1, config.extract_code_blocks, "code_blocks"),
                       config.extract_links, "links"),
               config.extract_images, "images")

\* lines 447-457: the document type and the section path are what the
\* document-tree collaborator (DocumentDiscovery) answers for the document
_add_document_metadata(data, env) ==
    SetIf(env.config.include_section_path,
          SetIf(env.config.include_doc_type, data, "doc_type", env.doc_type),
          "section_path", env.section_path)

\* lines 378-386
_add_content_fields(data, content_data, env) ==
    _add_document_metadata(
        _add_optional_features(
            _add_headings_content(
                _add_summary_content(
                    _add_primary_content(data, content_data, env.config),
                    content_data, env.config),
                content_data),
            content_data, env.config),
        env)

\* self.env.titles.get(docname).astext() if docname in self.env.titles else ""
TitleOf(docname, env) ==
    IF docname \in DOMAIN env.titles THEN env.titles[docname] ELSE ""

\* lines 311-314, 346-349: data["parent"] = parents, if there are any
AddParents(data, docname, env) ==
    LET parents == _get_parent_path(docname, env.all_docs)
    IN SetIf(parents # <<>>, data, "parent",
             PyList([i \in 1..Len(parents) |-> PyStr(parents[i])]))

\* lines 358-368 of build_json_data: the text goes under content_text when
\* data["content"] is the classification record
AddTextBesideContent(data, content_data) ==
    LET text == DictGet(content_data, "content")
        format == DictGetOr(content_data, "format", PyStr("text"))
    IN IF ~Truthy(text) THEN data
       ELSE IF "content" \in DOMAIN data /\ IsDict(data["content"])
            THEN Set(Set(data, "content_text", text), "format", format)
            ELSE Set(Set(data, "content", text), "format", format)

\* lines 292-327; include_content is None, True or False
build_child_json_data(docname, include_content, env) ==
    LET include == IF include_content = None THEN env.config.include_child_content
                   ELSE Val(include_content)
        content_data == IF include THEN env.content_data ELSE EmptyDict
        data == "id" :> PyStr(docname) @@
                "title" :> PyStr(TitleOf(docname, env)) @@
                "url" :> env.url
        with_meta == Val(env.product_metadata) @@
                     add_metadata_fields(AddParents(data, docname, env), env.metadata)
    IN IF IsError(normalize_metadata_for_json(env.metadata))
       THEN normalize_metadata_for_json(env.metadata)
       ELSE IF include THEN PyDict(_add_content_fields(with_meta, content_data, env))
       ELSE PyDict(with_meta)

\* lines 329-376
build_json_data(docname, env) ==
    LET content_data == env.content_data
        headings == Val(DictGet(content_data, "headings"))
        Simple(h) == PyDict("text" :> Val(h)["text"] @@ "level" :> Val(h)["level"])
        data == "id" :> PyStr(docname) @@
                "title" :> PyStr(TitleOf(docname, env)) @@
                "url" :> env.url @@
                "last_modified" :> env.now
        with_meta == Val(env.product_metadata) @@
                     add_metadata_fields(AddParents(data, docname, env), env.metadata)
        with_text == AddTextBesideContent(with_meta, content_data)
        with_summary == SetIf(Truthy(DictGet(content_data, "summary")), with_text,
                              "summary", DictGet(content_data, "summary"))
    IN IF IsError(normalize_metadata_for_json(env.metadata))
       THEN normalize_metadata_for_json(env.metadata)
       ELSE PyDict(SetIf(Truthy(DictGet(content_data, "headings")), with_summary,
                         "headings",
                         PyList([i \in 1..Len(headings) |-> Simple(headings[i])])))

----------------------------------------------------------------------------
(* The build environment a document record is built from *)

PathSegments == {"index", "guide"}

\* the document ids of up to MaxDepth path segments
DocNames == {Join(p) : p \in ListsUpTo(PathSegments, MaxDepth) \ {<<>>}}

\* the settings of conf.py (self.config), every feature switched on
BaseConfig ==
    [include_child_content |-> TRUE, content_max_length |-> 0,
     summary_max_length |-> 0, keywords_max_count |-> 0,
     extract_keywords |-> TRUE, extract_code_blocks |-> TRUE,
     extract_links |-> TRUE, extract_images |-> TRUE,
     include_doc_type |-> TRUE, include_section_path |-> TRUE,
     separate_content |-> FALSE, minify_json |-> FALSE]

\* what the environment and the collaborators answer for a document: its
\* frontmatter, its content extract, its URL, type and section path, the
\* product metadata of conf.py and the clock
BaseEnv ==
    [all_docs |-> {}, titles |-> EmptyMap,
     metadata |-> EmptyDict, content_data |-> EmptyDict,
     config |-> BaseConfig,
     url |-> PyStr("page.html"),
     doc_type |-> PyStr("guide"), section_path |-> PyList(<<PyStr("Guide")>>),
     product_metadata |-> PyDict("book" :> PyDict("title" :> PyStr("Docs") @@
                                                  "version" :> PyStr("1.0"))),
     now |-> PyStr("2025-01-01T00:00:00+00:00")]

NoCall == <<"", None>>

InitParents ==
    /\ raw = BaseEnv
    /\ out = None
    /\ op = "init"
    /\ arg = NoCall

\* Sphinx reads a source file: the document is known and has a title.  What
\* was built from the environment before is discarded.
ReadDoc ==
    /\ Cardinality(raw.all_docs) < MaxDocs
    /\ \E d \in DocNames \ raw.all_docs :
          raw' = [raw EXCEPT !.all_docs = @ \cup {d},
                             !.titles = (d :> "Guide") @@ @]
    /\ op' = "read"
    /\ out' = None
    /\ arg' = NoCall

\* self._get_parent_path(docname).  The calls leave the environment as it is,
\* so each is made once, on an environment nothing was built from yet.
GetParentPath ==
    \E docname \in DocNames :
        /\ out = None
        /\ out' = _get_parent_path(docname, raw.all_docs)
        /\ arg' = <<docname, None>>
        /\ op' = "parents"
        /\ UNCHANGED raw

\* self.build_child_json_data(docname, include_content) for a known document
BuildChildJsonData ==
    \E docname \in raw.all_docs : \E include_content \in {None, PyBool(TRUE), PyBool(FALSE)} :
        /\ out = None
        /\ out' = build_child_json_data(docname, include_content, raw)
        /\ arg' = <<docname, include_content>>
        /\ op' = "child"
        /\ UNCHANGED raw

\* self.build_json_data(docname) for a known document
BuildJsonData ==
    \E docname \in raw.all_docs :
        /\ out = None
        /\ out' = build_json_data(docname, raw)
        /\ arg' = <<docname, None>>
        /\ op' = "full"
        /\ UNCHANGED raw

NextParents == ReadDoc \/ GetParentPath \/ BuildChildJsonData \/ BuildJsonData

SpecParents == InitParents /\ [][NextParents]_vars

----------------------------------------------------------------------------
(* Properties of the ancestry list *)

\* s.endswith(suffix)
EndsWith(s, suffix) ==
    /\ Len(s) >= Len(suffix)
    /\ SubSeq(s, Len(s) - Len(suffix) + 1, Len(s)) = suffix

\* the id of an index document: "index" or ".../index"
IsIndexId(id) == id = "index" \/ EndsWith(id, "/index")

\* the number of path segments of an id
Depth(id) == Len(Split(id))

\* the `parent` list of a built document record, <<>> when it has no such key
ParentOf(record) ==
    IF HasKey(record, "parent")
    THEN [i \in 1..Len(Val(Val(record)["parent"])) |-> Val(Val(Val(record)["parent"])[i])]
    ELSE <<>>

\* C11: every entry of the list _get_parent_path computes is a known document
\* id of the form ".../index" (or "index"), the depth of the entries never
\* decreases along the list, and a built document record has the `parent` key
\* exactly when the list is not empty.
C11_Ancestry ==
    /\ op = "parents" =>
          /\ \A i \in 1..Len(out) : out[i] \in raw.all_docs /\ IsIndexId(out[i])
          /\ \A i \in 1..(Len(out) - 1) : Depth(out[i]) <= Depth(out[i + 1])
    /\ (op \in {"child", "full"} /\ ~IsError(out)) =>
          /\ HasKey(out, "parent") <=> _get_parent_path(arg[1], raw.all_docs) # <<>>
          /\ ParentOf(out) = _get_parent_path(arg[1], raw.all_docs)

\* C12 as stated: "index" is the first entry for every id but "index", whether
\* or not a document "index" is known.
C12_RootAlwaysFirst ==
    op = "parents" =>
        /\ arg[1] # "index" => (out # <<>> /\ out[1] = "index")
        /\ arg[1] = "index" => ~InSeq("index", out)

\* C12: when "index" is a known document it is the first entry of the list of
\* every id other than "index"; it is in no list when it is not known, and
\* never in the list of "index" itself.
C12_RootFirstWhenKnown ==
    op = "parents" =>
        /\ (arg[1] # "index" /\ "index" \in raw.all_docs) =>
              (out # <<>> /\ out[1] = "index")
        /\ (arg[1] = "index" \/ "index" \notin raw.all_docs) => ~InSeq("index", out)

\* the known top-level index leads the list of a nested document that has a
\* known directory index as well
C12_Witness ==
    /\ op = "parents"
    /\ "index" \in raw.all_docs
    /\ Len(out) = 2
    /\ out[1] = "index"
    /\ out[2] \in raw.all_docs

----------------------------------------------------------------------------
(* The document record built from a frontmatter record and a content extract *)

\* longest generated document text
MaxText == 3
\* largest generated length limit
MaxLimit == 2

\* the strings of up to n characters of the alphabet
RECURSIVE StringsUpTo(_, _)
StringsUpTo(alphabet, n) ==
    IF n = 0 THEN {""}
    ELSE LET shorter == StringsUpTo(alphabet, n - 1)
         IN shorter \cup {s \o c : s \in shorter, c \in alphabet}

\* document texts: words of the letter a, separated by blanks
Texts == StringsUpTo({"a", " "}, MaxText)

Summaries == StringsUpTo({"a"}, MaxText)

\* what extract_document_content found besides the text and the summary
Extras ==
    "format" :> PyStr("markdown") @@
    "headings" :> PyList(<<PyDict("text" :> PyStr("Intro") @@ "level" :> PyInt(1) @@
                                  "id" :> PyStr("intro")),
                           PyDict("text" :> PyStr("Use") @@ "level" :> PyInt(2))>>) @@
    "keywords" :> PyList(<<PyStr("gpu"), PyStr("data"), PyStr("curation")>>) @@
    "code_blocks" :> PyList(<<PyStr("pip install")>>) @@
    "links" :> PyList(<<>>) @@
    "images" :> PyList(<<PyStr("a.png")>>)

\* frontmatter records extract_document_metadata hands over: none, a v2
\* classification, legacy fields, and one on which the normalizer raises
MetadataPool ==
    {EmptyDict,
     PyDict("content" :> PyDict("type" :> PyStr("Concept")) @@
            "description" :> PyStr("About")),
     PyDict("content_type" :> PyStr("tutorial") @@ "author" :> PyStr("me")),
     PyDict("personas" :> PyList(<<PyList(<<>>)>>))}

InitProject ==
    /\ raw = [BaseEnv EXCEPT !.all_docs = {"index", "guide/index"},
                             !.titles = "index" :> "Home" @@ "guide/index" :> "Guide"]
    /\ out = None
    /\ op = "init"
    /\ arg = NoCall

\* self.json_builder.extract_document_metadata(docname), line 301
ExtractMetadata ==
    /\ op \in {"init", "configure"}
    /\ \E metadata \in MetadataPool : raw' = [raw EXCEPT !.metadata = metadata]
    /\ op' = "metadata"
    /\ UNCHANGED <<out, arg>>

\* self.json_builder.extract_document_content(docname), line 302
ExtractContent ==
    /\ op \in {"init", "configure", "metadata"}
    /\ \E text \in Texts : \E summary \in Summaries : \E extras \in BOOLEAN :
          raw' = [raw EXCEPT !.content_data =
                     PyDict("content" :> PyStr(text) @@ "summary" :> PyStr(summary) @@
                            (IF extras THEN Extras ELSE EmptyMap))]
    /\ op' = "content"
    /\ UNCHANGED <<out, arg>>

\* conf.py, read before any document is built, sets the length limits and
\* switches the optional fields
Configure ==
    /\ op = "init"
    /\ \E content_max_length \in 0..MaxLimit : \E summary_max_length \in 0..MaxLimit :
       \E keywords_max_count \in {0, MaxLimit} : \E on \in BOOLEAN :
          raw' = [raw EXCEPT !.config =
                     [@ EXCEPT !.content_max_length = content_max_length,
                               !.summary_max_length = summary_max_length,
                               !.keywords_max_count = keywords_max_count,
                               !.include_child_content = on,
                               !.extract_keywords = on,
                               !.extract_code_blocks = on,
                               !.extract_links = on,
                               !.extract_images = on,
                               !.include_doc_type = on,
                               !.include_section_path = on]]
    /\ op' = "configure"
    /\ UNCHANGED <<out, arg>>

NextProject ==
    ExtractMetadata \/ ExtractContent \/ Configure \/ BuildChildJsonData \/ BuildJsonData

SpecProject == InitProject /\ [][NextProject]_vars

----------------------------------------------------------------------------
(* Properties of the built document record *)

\* the record was built by build_child_json_data with the content fields
ChildWithContent ==
    /\ op = "child"
    /\ ~IsError(out)
    /\ IF arg[2] = None THEN raw.config.include_child_content ELSE Val(arg[2])

\* the text and the summary of the content extract
TextOf(env) == Val(DictGetOr(env.content_data, "content", PyStr("")))
SummaryOf(env) == Val(DictGetOr(env.content_data, "summary", PyStr("")))

\* the whitespace-delimited tokens of s[i..], when s[i-1] was inside a token
RECURSIVE TokensFrom(_, _, _)
TokensFrom(s, i, inside) ==
    IF i > Len(s) THEN 0
    ELSE IF IsSpace(Char(s, i)) THEN TokensFrom(s, i + 1, FALSE)
    ELSE (IF inside THEN 0 ELSE 1) + TokensFrom(s, i + 1, TRUE)

\* `emitted` is `text` cut at the limit L as the claim says
TruncatedAs(emitted, text, L) ==
    /\ (L > 0 /\ Len(text) > L) =>
          (emitted = SubSeq(text, 1, L) \o "..." /\ Len(emitted) = L + 3)
    /\ (L = 0 \/ Len(text) <= L) => emitted = text

\* C13: the emitted content (limit content_max_length) and summary (limit
\* summary_max_length) are the first L characters followed by "..." when L > 0
\* and the text is longer than L, and the unmodified text when L = 0 or the
\* text is no longer than L; content_length is the length and word_count the
\* number of whitespace-delimited tokens of the untruncated content.
C13_Truncation ==
    ChildWithContent =>
        /\ TextOf(raw) # "" =>
              /\ TruncatedAs(Val(Top(out, "content")), TextOf(raw),
                             raw.config.content_max_length)
              /\ Top(out, "content_length") = PyInt(Len(TextOf(raw)))
              /\ Top(out, "word_count") = PyInt(TokensFrom(TextOf(raw), 1, FALSE))
        /\ SummaryOf(raw) # "" =>
              TruncatedAs(Val(Top(out, "summary")), SummaryOf(raw),
                          raw.config.summary_max_length)

\* a two-word text of three characters cut at two, a summary cut at one
C13_Witness ==
    /\ ChildWithContent
    /\ raw.config.content_max_length = 2
    /\ Top(out, "content") = PyStr("a ...")
    /\ Top(out, "content_length") = PyInt(3)
    /\ Top(out, "word_count") = PyInt(2)
    /\ raw.config.summary_max_length = 1
    /\ Top(out, "summary") = PyStr("a...")

\* the content classification record of the canonical record of the frontmatter
ClassificationOf(env) ==
    Top(normalize_metadata_for_json(env.metadata), "content")

\* C14: when the canonical record has a content classification record and the
\* content extract has a non-empty text, the record built by
\* build_child_json_data and by build_json_data carries the classification
\* record under `content` and the document text under `content_text`.
C14_ClassificationSurvives ==
    ((ChildWithContent \/ (op = "full" /\ ~IsError(out)))
        /\ IsDict(ClassificationOf(raw)) /\ TextOf(raw) # "") =>
            /\ Top(out, "content") = ClassificationOf(raw)
            /\ Present(Top(out, "content_text"))
            /\ op = "full" => Top(out, "content_text") = PyStr(TextOf(raw))

----------------------------------------------------------------------------
(* json_output/core/json_writer.py: JSONWriter *)

\* most write_json_file calls of a generated build
MaxWrites == 2

\* the position of the last character c of s, 0 when there is none
RECURSIVE LastIndexOf(_, _, _)
LastIndexOf(s, c, i) ==
    IF i = 0 THEN 0
    ELSE IF Char(s, i) = c THEN i
    ELSE LastIndexOf(s, c, i - 1)

WholePath(path) == path

\* Path.name: what follows the last "/"
PathName(path) == SubSeq(path, LastIndexOf(path, "/", Len(path)) + 1, Len(path))

\* Path.with_suffix(suffix): the suffix of the name, from its last "." on,
\* is replaced; a name without one (or with only a leading ".") is extended
WithSuffix(path, suffix) ==
    LET name == PathName(path)
        dot == LastIndexOf(name, ".", Len(name))
    IN IF dot > 1 /\ dot < Len(name)
       THEN SubSeq(path, 1, Len(path) - (Len(name) - dot + 1)) \o suffix
       ELSE path \o suffix

\* lines 27-32: json_path, relative to outdir
JsonPath(docname) ==
    IF docname = "index" THEN "index.json"
    ELSE IF EndsWith(docname, "/index")
         THEN SubSeq(docname, 1, Len(docname) - 6) \o "/" \o "index.json"
         ELSE docname \o ".json"

\* what json.dump leaves in a file: the value, minified or indented by two
JsonFile(data, config) ==
    <<"json", IF config.minify_json THEN "minified" ELSE "indented", data>>

\* what a json.dump that raised part-way leaves: a file opened for writing
\* that holds a proper prefix of the text
PartialFile == <<"partial", "", None>>

\* lines 84-90; st is [files, raised], fault what goes wrong in this write
_write_json_data(st, file_path, data, config, fault) ==
    IF st.raised THEN st
    ELSE IF fault = "open" THEN [st EXCEPT !.raised = TRUE]
    ELSE IF fault = "dump"
         THEN [files |-> (file_path :> PartialFile) @@ st.files, raised |-> TRUE]
         ELSE [st EXCEPT !.files = (file_path :> JsonFile(data, config)) @@ @]

\* fault "open2" is "open" in the second write of a call, and so on
FaultAt(fault, n) ==
    CASE fault = "open1" /\ n = 1 -> "open"
      [] fault = "dump1" /\ n = 1 -> "dump"
      [] fault = "open2" /\ n = 2 -> "open"
      [] fault = "dump2" /\ n = 2 -> "dump"
      [] OTHER -> "none"

\* lines 50-69
_write_separate_content(st, json_path, data, config, fault) ==
    LET content_path == WithSuffix(json_path, ".content.json")
        content_data ==
            PyDict("id" :> Val(data)["id"] @@
                   "content" :> Val(data)["content"] @@
                   "format" :> DictGetOr(data, "format", PyStr("text")) @@
                   "content_length" :> DictGetOr(data, "content_length", PyInt(0)) @@
                   "word_count" :> DictGetOr(data, "word_count", PyInt(0)))
        written == _write_json_data(st, content_path, content_data, config,
                                    FaultAt(fault, 1))
        main_data ==
            PyDict("content_file" :> PyStr(PathName(content_path)) @@
                   [k \in DOMAIN Val(data) \ {"content"} |-> Val(data)[k]])
    IN _write_json_data(written, json_path, main_data, config, FaultAt(fault, 2))

\* lines 71-78
_write_index_array(st, json_path, data, config, fault) ==
    _write_json_data(st, json_path, DictGetOr(data, "children", PyList(<<>>)),
                     config, FaultAt(fault, 1))

\* lines 80-82
_write_single_file(st, json_path, data, config, fault) ==
    _write_json_data(st, json_path, data, config, FaultAt(fault, 1))

Reraise(raised) == IF raised THEN Err("Exception") ELSE None

\* lines 47-48: except Exception: logger.exception(...); the call returns None
Caught(raised) == None

\* lines 22-48: the files after the call, whether an exception was logged,
\* and what the call returned
write_json_file(files, docname, data, config, fault) ==
    LET json_path == JsonPath(docname)
        st == [files |-> files, raised |-> fault = "mkdir"]
        done == IF st.raised THEN st
                ELSE IF docname = "index" /\ HasKey(data, "children")
                     THEN _write_index_array(st, json_path, data, config, fault)
                ELSE IF config.separate_content /\ HasKey(data, "content")
                     THEN _write_separate_content(st, json_path, data, config, fault)
                ELSE _write_single_file(st, json_path, data, config, fault)
    IN [files |-> done.files, logged |-> done.raised, returned |-> Caught(done.raised)]

----------------------------------------------------------------------------
(* The document records written to the output directory *)

WriterDocs == {"index", "guide", "guide/index", "guide.content"}

\* the records of two child documents, as build_child_json_data builds them
ChildRecords ==
    <<PyDict("id" :> PyStr("guide") @@ "title" :> PyStr("Guide") @@
             "url" :> PyStr("guide.html")),
      PyDict("id" :> PyStr("guide/index") @@ "title" :> PyStr("Guide") @@
             "url" :> PyStr("guide/index.html") @@ "content" :> PyStr("a a"))>>

\* the records handed to write_json_file for a document: the bare record, one
\* with the text and its measures, one with the text alone, one whose content
\* is the classification record, and records with a list of children
WriterData(docname) ==
    LET base == "id" :> PyStr(docname) @@ "title" :> PyStr("Guide") @@
                "url" :> PyStr(docname \o ".html")
        text == "content" :> PyStr("a a") @@ "format" :> PyStr("markdown") @@
                "content_length" :> PyInt(3) @@ "word_count" :> PyInt(2)
    IN {PyDict(base),
        PyDict(text @@ base),
        PyDict("content" :> PyStr("a") @@ base),
        PyDict("content" :> PyDict("type" :> PyStr("Concept")) @@
               "content_text" :> PyStr("a") @@ "format" :> PyStr("text") @@ base)}
       \cup {PyDict("children" :> PyList(SubSeq(ChildRecords, 1, n)) @@ base) : n \in 0..2}
       \cup {PyDict("children" :> PyList(ChildRecords) @@ text @@ base)}

\* what can go wrong in a call: creating the directory, opening the first or
\* the second file, encoding the value written to the first or the second file
Faults == {"none", "mkdir", "open1", "dump1", "open2", "dump2"}

NoWrite == <<"", None, "none", 0>>

InitWriter ==
    /\ raw \in {[BaseEnv EXCEPT !.config = [@ EXCEPT !.separate_content = s,
                                                     !.minify_json = m]] :
                   s \in BOOLEAN, m \in BOOLEAN}
    /\ out = [files |-> EmptyMap, logged |-> FALSE, returned |-> None]
    /\ op = "init"
    /\ arg = NoWrite

\* the builder has the record of a document ready; arg is
\* <<docname, the record object, the fault of the last call, calls made>>
BuildRecord ==
    /\ op \in {"init", "write"}
    /\ arg[4] < MaxWrites
    /\ \E docname \in WriterDocs : \E data \in WriterData(docname) :
          arg' = <<docname, data, "none", arg[4]>>
    /\ op' = "built"
    /\ UNCHANGED <<raw, out>>

\* self.write_json_file(docname, data): main_data is a copy (line 65), so the
\* record object is as it was
WriteJsonFile ==
    /\ op = "built"
    /\ \E fault \in Faults :
          /\ out' = write_json_file(out.files, arg[1], arg[2], raw.config, fault)
          /\ arg' = <<arg[1], arg[2], fault, arg[4] + 1>>
    /\ op' = "write"
    /\ UNCHANGED raw

NextWriter == BuildRecord \/ WriteJsonFile

SpecWriter == InitWriter /\ [][NextWriter]_vars

----------------------------------------------------------------------------
(* Properties of the written files *)

\* the value of a completely written JSON file at path, Missing otherwise
Written(files, path) ==
    IF path \in DOMAIN files /\ files[path][1] = "json" THEN files[path][3]
    ELSE Missing

\* a path with its ".json" taken off
Stem(path) == SubSeq(path, 1, Len(path) - 5)

\* the sibling content file of the main file of a document
Sibling(docname) == Stem(JsonPath(docname)) \o ".content.json"

\* the last path segment
FileName(path) == Split(path)[Len(Split(path))]

\* C15: whenever write_json_file has written the file of the root document
\* `index`, index.json holds a bare JSON array, never an object, with one
\* entry for each child document record, whatever separate_content is.
C15_RootIsArray ==
    (op = "write" /\ arg[1] = "index" /\ ~out.logged) =>
        /\ IsList(Written(out.files, "index.json"))
        /\ Len(Val(Written(out.files, "index.json"))) =
              Len(Val(DictGetOr(arg[2], "children", PyList(<<>>))))

\* the call wrote a non-root record that has `content`, in separate-content
\* mode, and nothing went wrong
SeparateWritten ==
    /\ op' = "write"
    /\ raw.config.separate_content
    /\ arg[1] # "index"
    /\ HasKey(arg[2], "content")
    /\ ~out'.logged

\* C16: in separate-content mode the call for a non-root record with a
\* `content` field writes a sibling *.content.json with exactly the keys id,
\* content, format, content_length, word_count, and a main file that is the
\* record without `content` and with `content_file` the sibling's file name;
\* the record object passed in is as it was.
C16_SeparateContent ==
    [][SeparateWritten =>
        LET sibling == Written(out'.files, Sibling(arg[1]))
            main == Written(out'.files, JsonPath(arg[1]))
        IN /\ IsDict(sibling)
           /\ DOMAIN Val(sibling) =
                 {"id", "content", "format", "content_length", "word_count"}
           /\ Top(sibling, "id") = Top(arg[2], "id")
           /\ Top(sibling, "content") = Top(arg[2], "content")
           /\ IsDict(main)
           /\ DOMAIN Val(main) = (DOMAIN Val(arg[2]) \ {"content"}) \cup {"content_file"}
           /\ \A k \in DOMAIN Val(arg[2]) \ {"content"} : Val(main)[k] = Val(arg[2])[k]
           /\ Top(main, "content_file") = PyStr(FileName(Sibling(arg[1])))
           /\ arg'[2] = arg[2]
           /\ arg'[1] = arg[1]]_vars

\* the record of guide/index was split into guide/index.content.json and
\* guide/index.json, which names index.content.json
C16_Witness ==
    /\ op = "write"
    /\ raw.config.separate_content
    /\ arg[1] = "guide/index"
    /\ ~out.logged
    /\ Top(Written(out.files, "guide/index.json"), "content_file") =
          PyStr("index.content.json")
    /\ Top(Written(out.files, "guide/index.content.json"), "word_count") = PyInt(0)

\* what a call without a failure leaves in the main file of its document
OwnData(docname, data, config) ==
    IF docname = "index" /\ HasKey(data, "children") THEN Val(data)["children"]
    ELSE IF config.separate_content /\ HasKey(data, "content")
         THEN PyDict("content_file" :> PyStr(FileName(Sibling(docname))) @@
                     [k \in DOMAIN Val(data) \ {"content"} |-> Val(data)[k]])
         ELSE data

----------------------------------------------------------------------------
(* rich_metadata/__init__.py: the page title and the meta tags *)

\* str(n) for an integer n
RECURSIVE Digits(_)
Digits(n) ==
    IF n < 0 THEN "-" \o Digits(0 - n)
    ELSE IF n < 10 THEN SubSeq("0123456789", n + 1, n + 1)
    ELSE Digits(n \div 10) \o SubSeq("0123456789", (n % 10) + 1, (n % 10) + 1)

\* f"{v}" for a str, int, bool or None v
Format(v) ==
    CASE Tag(v) = "str" -> Val(v)
      [] Tag(v) = "int" -> Digits(Val(v))
      [] Tag(v) = "bool" -> IF Val(v) THEN "True" ELSE "False"
      [] Tag(v) = "none" -> "None"

\* sep.join(l) on a list of strings
RECURSIVE JoinWith(_, _)
JoinWith(sep, l) ==
    IF l = <<>> THEN ""
    ELSE IF Len(l) = 1 THEN l[1]
    ELSE l[1] \o sep \o JoinWith(sep, Tail(l))

\* ", ".join(v) on a list v: TypeError unless every item is a str
CommaJoin(v) ==
    IF \E i \in 1..Len(Val(v)) : Tag(Val(v)[i]) # "str" THEN Err("TypeError")
    ELSE PyStr(JoinWith(", ", [i \in 1..Len(Val(v)) |-> Val(Val(v)[i])]))

\* the first exception among the results rs, or None
FirstError(rs) ==
    IF \E i \in 1..Len(rs) : IsError(rs[i])
    THEN rs[CHOOSE i \in 1..Len(rs) : IsError(rs[i]) /\ \A j \in 1..(i - 1) : ~IsError(rs[j])]
    ELSE None

\* <meta name="..." content="..."> and <meta property="..." content="...">
MetaName(name, content) ==
    "<meta name=\"" \o name \o "\" content=\"" \o Format(content) \o "\">"
MetaProperty(name, content) ==
    "<meta property=\"" \o name \o "\" content=\"" \o Format(content) \o "\">"

\* [tag] if cond else []
TagIf(cond, tag) == IF cond THEN <<PyStr(tag)>> ELSE <<>>

NoBrand(components) == Format(components[1])

\* lines 230-239: the title of one, two or three components
Branded(components) ==
    IF Len(components) = 1 THEN Format(components[1]) \o " | NVIDIA"
    ELSE IF Len(components) = 2
         THEN Format(components[1]) \o " - " \o Format(components[2]) \o " | NVIDIA"
         ELSE Format(components[1]) \o ": " \o Format(components[2]) \o " - " \o
              Format(components[3]) \o " | NVIDIA"

\* lines 198-239; context is the page context, a dict
build_page_title(metadata, context) ==
    LET page_title == Or(get_nested_value(metadata, <<"title", "page">>, None),
                         DictGetOr(context, "title", PyStr("")))
        parents == DictGet(context, "parents")
        parent == Val(parents)[Len(Val(parents))]
        with_parent == IF Truthy(parents) /\ HasKey(parent, "title")
                          /\ Val(parent)["title"] # page_title
                       THEN <<page_title, Val(parent)["title"]>>
                       ELSE <<page_title>>
        site_name == DictGetOr(context, "docstitle", PyStr(""))
        components == IF Truthy(site_name) /\ site_name # page_title
                      THEN Append(with_parent, site_name)
                      ELSE with_parent
    IN IF ~Truthy(page_title) THEN None
       ELSE PyStr(Branded(components))

\* The tag builders return the list of tags, or the exception raised.

\* lines 242-254
_add_basic_fields(metadata) ==
    LET keywords == DictGet(metadata, "tags")
        keywords_str == IF HasKey(metadata, "tags") /\ IsList(keywords)
                        THEN CommaJoin(keywords) ELSE None
    IN IF IsError(keywords_str) THEN keywords_str
       ELSE PyList(
            TagIf(HasKey(metadata, "description"),
                  MetaName("description", DictGet(metadata, "description"))) \o
            TagIf(HasKey(metadata, "tags") /\ IsList(keywords),
                  MetaName("keywords", keywords_str)))

\* social.description or description (lines 262, 290)
SocialDescription(metadata) ==
    Or(get_nested_value(metadata, <<"social", "description">>, None),
       DictGet(metadata, "description"))

\* title.social or pagetitle or title (lines 269, 295)
SocialTitle(metadata, context) ==
    Or(Or(get_nested_value(metadata, <<"title", "social">>, None),
          DictGet(context, "pagetitle")),
       DictGetOr(context, "title", PyStr("")))

\* lines 257-282
_add_opengraph_fields(metadata, context) ==
    LET og_description == SocialDescription(metadata)
        og_title == SocialTitle(metadata, context)
        og_image == get_nested_value(metadata, <<"social", "image">>, None)
    IN PyList(
        TagIf(Truthy(og_description), MetaProperty("og:description", og_description)) \o
        <<PyStr("<meta property=\"og:type\" content=\"article\">")>> \o
        TagIf(Truthy(og_title), MetaProperty("og:title", og_title)) \o
        TagIf(HasKey(context, "pageurl"),
              MetaProperty("og:url", DictGet(context, "pageurl"))) \o
        TagIf(Truthy(og_image), MetaProperty("og:image", og_image)))

\* lines 285-306
_add_twitter_fields(metadata, context) ==
    LET twitter_description == SocialDescription(metadata)
        twitter_title == SocialTitle(metadata, context)
        twitter_image == get_nested_value(metadata, <<"social", "image">>, None)
    IN PyList(
        TagIf(Truthy(twitter_description),
              MetaName("twitter:description", twitter_description)) \o
        TagIf(Truthy(twitter_title), MetaName("twitter:title", twitter_title)) \o
        <<PyStr("<meta name=\"twitter:card\" content=\"summary\">")>> \o
        TagIf(Truthy(twitter_image), MetaName("twitter:image", twitter_image)))

\* lines 309-323
_add_audience_tag(metadata) ==
    LET audience == get_nested_value(metadata, <<"content", "audience">>, None)
        audience_str == CommaJoin(AsList(audience))
    IN IF ~Truthy(audience) THEN PyList(<<>>)
       ELSE IF IsError(audience_str) THEN audience_str
       ELSE PyList(<<PyStr(MetaName("audience", audience_str))>>)

\* lines 326-344
_add_product_tags(metadata) ==
    LET cascade == DictGet(metadata, "cascade")
        product == DictGet(cascade, "product")
    IN IF ~HasKey(metadata, "cascade") THEN PyList(<<>>)
       ELSE IF ~IsDict(cascade) \/ ~HasKey(cascade, "product") THEN PyList(<<>>)
       ELSE IF ~IsDict(product) THEN PyList(<<>>)
       ELSE PyList(
            TagIf(Truthy(DictGet(product, "name")),
                  MetaName("product-name", DictGet(product, "name"))) \o
            TagIf(Truthy(DictGet(product, "version")),
                  MetaName("product-version", DictGet(product, "version"))))

\* lines 347-381
_add_custom_fields(metadata) ==
    LET audience_tag == _add_audience_tag(metadata)
        content_type == Or(get_nested_value(metadata, <<"content", "type">>, None),
                           DictGet(metadata, "content_type"))
        difficulty == Or(get_nested_value(metadata, <<"content", "difficulty">>, None),
                         DictGet(metadata, "difficulty"))
        modality == Or(get_nested_value(metadata, <<"facets", "modality">>, None),
                       DictGet(metadata, "modality"))
        topics == Or(DictGet(metadata, "topics"), DictGet(metadata, "categories"))
        topics_str == IF IsList(topics) THEN CommaJoin(topics) ELSE topics
    IN IF IsError(audience_tag) THEN audience_tag
       ELSE IF Truthy(topics) /\ IsError(topics_str) THEN topics_str
       ELSE PyList(
            Val(audience_tag) \o
            TagIf(Truthy(content_type), MetaName("content-type-category", content_type)) \o
            TagIf(Truthy(difficulty), MetaName("difficulty", difficulty)) \o
            TagIf(Truthy(modality), MetaName("modality", modality)) \o
            TagIf(Truthy(topics), MetaName("topics", topics_str)) \o
            Val(_add_product_tags(metadata)))

\* lines 384-400: the four groups, or the first exception raised
build_meta_tags(metadata, context) ==
    LET basic == _add_basic_fields(metadata)
        opengraph == _add_opengraph_fields(metadata, context)
        twitter == _add_twitter_fields(metadata, context)
        custom == _add_custom_fields(metadata)
    IN IF FirstError(<<basic, opengraph, twitter, custom>>) # None
       THEN FirstError(<<basic, opengraph, twitter, custom>>)
       ELSE PyDict("basic" :> basic @@ "opengraph" :> opengraph @@
                   "twitter" :> twitter @@ "custom" :> custom)

\* The JSON-LD record is held in insertion order, as a sequence of
\* <<key, value>>; a nested record is the value <<"object", pairs>>.
JsonObject(pairs) == <<"object", pairs>>

\* [<<key, value>>] if cond else []
PairIf(cond, key, value) == IF cond THEN <<<<key, value>>>> ELSE <<>>

\* two blanks for each level of nesting
RECURSIVE Indent(_)
Indent(level) == IF level = 0 THEN "" ELSE "  " \o Indent(level - 1)

\* json.dumps(v, indent=2) at a nesting level, for records, lists and the
\* scalars; strings are taken to need no escaping
RECURSIVE JsonDumps(_, _)
JsonDumps(v, level) ==
    LET Items(n, Line(_)) ==
            JoinWith(",\n", [i \in 1..n |-> Indent(level + 1) \o Line(i)])
        Member(i) == "\"" \o Val(v)[i][1] \o "\": " \o JsonDumps(Val(v)[i][2], level + 1)
        Element(i) == JsonDumps(Val(v)[i], level + 1)
    IN CASE Tag(v) = "str" -> "\"" \o Val(v) \o "\""
         [] Tag(v) = "int" -> Digits(Val(v))
         [] Tag(v) = "bool" -> IF Val(v) THEN "true" ELSE "false"
         [] Tag(v) = "none" -> "null"
         [] Tag(v) = "list" ->
              IF Val(v) = <<>> THEN "[]"
              ELSE "[\n" \o Items(Len(Val(v)), Element) \o "\n" \o Indent(level) \o "]"
         [] Tag(v) = "object" ->
              IF Val(v) = <<>> THEN "{}"
              ELSE "{\n" \o Items(Len(Val(v)), Member) \o "\n" \o Indent(level) \o "}"

\* lines 439-447, 456-461: the schema.org types and proficiency levels
type_mapping ==
    "tutorial" :> "HowTo" @@ "troubleshooting" :> "HowTo" @@
    "concept" :> "Article" @@ "reference" :> "TechArticle" @@
    "example" :> "HowTo" @@ "get started" :> "HowTo" @@ "code sample" :> "HowTo"

difficulty_map ==
    "beginner" :> "Beginner" @@ "intermediate" :> "Intermediate" @@
    "advanced" :> "Expert" @@ "reference" :> "Expert"

\* map[x.lower()] if x.lower() in map, None if not; AttributeError unless x
\* is a str
Lookup(map, x) ==
    IF Tag(x) # "str" THEN Err("AttributeError")
    ELSE IF Lower(Val(x)) \in DOMAIN map THEN PyStr(map[Lower(Val(x))])
    ELSE None

\* lines 403-510: the script element, or the exception raised
build_json_ld(metadata, context) ==
    LET page_title == Or(get_nested_value(metadata, <<"title", "page">>, None),
                         DictGet(context, "title"))
        tags == DictGet(metadata, "tags")
        content_type == Or(get_nested_value(metadata, <<"content", "type">>, None),
                           DictGet(metadata, "content_type"))
        type == IF Truthy(content_type) THEN Lookup(type_mapping, content_type) ELSE None
        difficulty == Or(get_nested_value(metadata, <<"content", "difficulty">>, None),
                         DictGet(metadata, "difficulty"))
        level == IF Truthy(difficulty) THEN Lookup(difficulty_map, difficulty) ELSE None
        audience == get_nested_value(metadata, <<"content", "audience">>, None)
        cascade == DictGet(metadata, "cascade")
        product == DictGet(cascade, "product")
        has_product == /\ HasKey(metadata, "cascade")
                       /\ IsDict(cascade) /\ HasKey(cascade, "product")
                       /\ IsDict(product) /\ Truthy(DictGet(product, "name"))
        modality == Or(get_nested_value(metadata, <<"facets", "modality">>, None),
                       DictGet(metadata, "modality"))
        structured_data ==
            <<<<"@context", PyStr("https://schema.org")>>,
              <<"@type", IF Truthy(type) THEN type ELSE PyStr("TechArticle")>>>> \o
            PairIf(Truthy(page_title), "headline", page_title) \o
            PairIf(Truthy(page_title), "name", page_title) \o
            PairIf(HasKey(metadata, "description"), "description",
                   DictGet(metadata, "description")) \o
            PairIf(HasKey(metadata, "tags") /\ IsList(tags), "keywords", tags) \o
            PairIf(Truthy(level), "proficiencyLevel", level) \o
            PairIf(Truthy(audience) /\ IsList(audience), "audience",
                   JsonObject(<<<<"@type", PyStr("Audience")>>,
                                <<"audienceType", audience>>>>)) \o
            PairIf(HasKey(context, "pageurl"), "url", DictGet(context, "pageurl")) \o
            <<<<"publisher",
                JsonObject(<<<<"@type", PyStr("Organization")>>,
                             <<"name", PyStr("NVIDIA Corporation")>>,
                             <<"url", PyStr("https://www.nvidia.com")>>>>)>>>> \o
            PairIf(has_product, "about",
                   JsonObject(<<<<"@type", PyStr("SoftwareApplication")>>,
                                <<"name", DictGet(product, "name")>>,
                                <<"applicationCategory", PyStr("Data Curation Software")>>,
                                <<"operatingSystem", PyStr("Linux")>>>> \o
                              PairIf(Truthy(DictGet(product, "version")),
                                     "softwareVersion", DictGet(product, "version")))) \o
            PairIf(Truthy(modality), "additionalProperty",
                   JsonObject(<<<<"@type", PyStr("PropertyValue")>>,
                                <<"name", PyStr("modality")>>,
                                <<"value", modality>>>>))
    IN IF IsError(type) THEN type
       ELSE IF IsError(level) THEN level
       ELSE PyStr("<script type=\"application/ld+json\">\n" \o
                  JsonDumps(JsonObject(structured_data), 0) \o "\n</script>")

\* the strings of a list of str
Strings(l) == [i \in 1..Len(l) |-> Val(l[i])]

SectionAlways(header, tags) == <<header>> \o Strings(Val(tags))

\* lines 559-576: if meta_tags.get(group): append the header, extend by the tags
Section(header, tags) ==
    IF Truthy(tags) THEN <<header>> \o Strings(Val(tags)) ELSE <<>>

\* lines 513-591: the page context the handler leaves, and the exception it
\* raised (None when it returned). raw_metadata is what extract_frontmatter
\* read for the page, a dict; doctree is None for a generated page.
add_metadata_to_context(context, doctree, raw_metadata) ==
    LET metadata == normalize_metadata(raw_metadata)
        enhanced_title == build_page_title(metadata, context)
        titled == IF Truthy(enhanced_title)
                  THEN PyDict(Set(Val(context), "pagetitle", enhanced_title))
                  ELSE context
        meta_tags == build_meta_tags(metadata, titled)
        json_ld == build_json_ld(metadata, titled)
        metadata_sections ==
            Section("<!-- SEO Meta Tags -->", DictGet(meta_tags, "basic")) \o
            Section("\n    <!-- Open Graph / Facebook -->", DictGet(meta_tags, "opengraph")) \o
            Section("\n    <!-- Twitter -->", DictGet(meta_tags, "twitter")) \o
            Section("\n    <!-- Content Metadata -->", DictGet(meta_tags, "custom")) \o
            (IF Truthy(json_ld)
             THEN <<"\n    <!-- Structured Data (JSON-LD) -->", Val(json_ld)>>
             ELSE <<>>)
        metadata_html == JoinWith("\n    ", metadata_sections)
        metatags == DictGetOr(titled, "metatags", PyStr(""))
    IN IF doctree = None \/ ~Truthy(raw_metadata)
       THEN [context |-> context, raised |-> None]
       ELSE IF IsError(metadata) THEN [context |-> context, raised |-> metadata]
       ELSE IF IsError(meta_tags) THEN [context |-> titled, raised |-> meta_tags]
       ELSE IF IsError(json_ld) THEN [context |-> titled, raised |-> json_ld]
       ELSE [context |-> PyDict(Set(Val(titled), "metatags",
                                    PyStr(Format(metatags) \o "\n    " \o metadata_html))),
             raised |-> None]

----------------------------------------------------------------------------
(* The pages the HTML builder hands to rich_metadata *)

\* the frontmatter records read for a page
PageMetadata ==
    { EmptyDict,
      PyDict("title" :> PyDict("page" :> PyStr("Intro") @@ "social" :> PyStr("Hi"))),
      PyDict("title" :> PyStr("Plain") @@ "description" :> PyStr("About") @@
             "tags" :> PyList(<<PyStr("gpu"), PyStr("data")>>)),
      PyDict("tags" :> PyStr("gpu") @@ "description" :> PyStr("")),
      PyDict("social" :> PyDict("description" :> PyStr("Short") @@
                                "image" :> PyStr("a.png")) @@
             "topics" :> PyList(<<PyStr("B")>>)),
      PyDict("personas" :> PyList(<<PyStr("mle-focused")>>) @@
             "content_type" :> PyStr("tutorial") @@
             "difficulty" :> PyStr("beginner") @@ "modality" :> PyStr("text-only")),
      PyDict("content" :> PyDict("audience" :> PyStr("Data Scientist") @@
                                 "type" :> PyStr("how-to") @@
                                 "difficulty" :> PyStr("Expert")) @@
             "categories" :> PyList(<<PyStr("A")>>) @@
             "cascade" :> PyDict("product" :> PyDict("name" :> PyStr("Curator") @@
                                                     "version" :> PyInt(25)))),
      PyDict("content" :> PyDict("audience" :> PyList(<<PyStr("a"), PyStr("b")>>)) @@
             "facets" :> PyDict("modality" :> PyStr("universal"))),
      PyDict("title" :> PyDict("page" :> PyStr("")) @@
             "cascade" :> PyDict("product" :> PyStr("Curator"))),
      PyDict("tags" :> PyList(<<PyInt(2024)>>)),
      PyDict("content_type" :> PyInt(5)),
      PyDict("personas" :> PyList(<<PyList(<<>>)>>)) }

\* the breadcrumbs of a page: none, a section, two levels, an entry without title
ParentLists ==
    { PyList(<<>>),
      PyList(<<PyDict("title" :> PyStr("Sec") @@ "link" :> PyStr("../"))>>),
      PyList(<<PyDict("title" :> PyStr("Top")), PyDict("title" :> PyStr("Guide"))>>),
      PyList(<<PyDict("link" :> PyStr("../"))>>) }

\* the keys of the page context one by one: absent, or one of its values
ContextPool(k) ==
    CASE k = "title" -> {PyStr(""), PyStr("Guide")}
      [] k = "parents" -> ParentLists
      [] k = "docstitle" -> {PyStr(""), PyStr("Site"), PyStr("Guide")}
      [] k = "pageurl" -> {PyStr("https://x/guide.html")}
      [] k = "pagetitle" -> {PyStr("Guide - Site")}
      [] k = "metatags" -> {PyStr(""), PyStr("<meta name=\"x\">")}

ContextKeys == {"title", "parents", "docstitle", "pageurl", "pagetitle", "metatags"}

Doctrees == {None, PyStr("doctree")}

NoPage == <<None, None>>

InitPage ==
    /\ raw = [context |-> EmptyDict, doctree |-> PyStr("doctree"),
              frontmatter |-> EmptyDict]
    /\ out = None
    /\ op = "init"
    /\ arg = NoPage

\* the builder fills one more key of the page context
SetContext ==
    \E k \in ContextKeys \ DOMAIN Val(raw.context) : \E v \in ContextPool(k) :
        /\ op \in {"init", "context"}
        /\ raw' = [raw EXCEPT !.context = PyDict(Set(Val(raw.context), k, v))]
        /\ out' = None
        /\ op' = "context"
        /\ arg' = NoPage

\* the page's source is read (or the page is a generated one, without doctree)
ReadPage ==
    \E doctree \in Doctrees : \E fm \in PageMetadata :
        /\ op \in {"init", "context"}
        /\ raw' = [raw EXCEPT !.doctree = doctree, !.frontmatter = fm]
        /\ out' = None
        /\ op' = "page"
        /\ arg' = NoPage

\* build_page_title on the normalized frontmatter of the page
BuildPageTitle ==
    /\ op = "page"
    /\ ~IsError(normalize_metadata(raw.frontmatter))
    /\ out' = build_page_title(normalize_metadata(raw.frontmatter), raw.context)
    /\ op' = "title"
    /\ arg' = <<normalize_metadata(raw.frontmatter), raw.context>>
    /\ UNCHANGED raw

\* the html-page-context handler; the context it leaves is the page's context
AddMetadataToContext ==
    LET r == add_metadata_to_context(raw.context, raw.doctree, raw.frontmatter)
    IN /\ op = "page"
       /\ raw' = [raw EXCEPT !.context = r.context]
       /\ out' = r.raised
       /\ op' = "html"
       /\ arg' = <<raw.context, raw.frontmatter>>

NextPage == SetContext \/ ReadPage \/ BuildPageTitle \/ AddMetadataToContext

SpecPage == InitPage /\ [][NextPage]_vars

----------------------------------------------------------------------------
(* Properties of the page title and of the head fragment *)

\* s.startswith(prefix)
StartsWith(s, prefix) ==
    /\ Len(s) >= Len(prefix)
    /\ SubSeq(s, 1, Len(prefix)) = prefix

\* the base title, the immediate parent's title and the site name of a call
TitlePage(metadata) == Sub(metadata, "title", "page")
BaseTitle(metadata, context) ==
    IF NonEmpty(TitlePage(metadata)) THEN TitlePage(metadata) ELSE Top(context, "title")
ParentTitle(context) ==
    LET parents == Top(context, "parents")
    IN IF NonEmpty(parents) THEN Top(Val(parents)[Len(Val(parents))], "title") ELSE Missing
TitleComponents(metadata, context) ==
    LET base == BaseTitle(metadata, context)
        P == ParentTitle(context)
        Y == Top(context, "docstitle")
    IN <<Val(base)>> \o
       (IF Present(P) /\ P # base THEN <<Val(P)>> ELSE <<>>) \o
       (IF NonEmpty(Y) /\ Y # base THEN <<Val(Y)>> ELSE <<>>)

\* C18: build_page_title returns no override exactly when neither title.page of
\* the frontmatter nor the title of the page context is non-empty; otherwise,
\* with the components base, immediate parent's title (if there is one and it
\* differs from base) and site name (if non-empty and different from base), it
\* returns "X | NVIDIA" for one component, "X - Y | NVIDIA" for two and
\* "X: P - Y | NVIDIA" for three: the result ends with " | NVIDIA" and starts
\* with the base title.
C18_PageTitle ==
    op = "title" =>
        LET metadata == arg[1]
            context == arg[2]
            c == TitleComponents(metadata, context)
        IN /\ (out = None) <=>
                  (~NonEmpty(TitlePage(metadata)) /\ ~NonEmpty(Top(context, "title")))
           /\ out # None =>
                /\ Tag(out) = "str"
                /\ Len(c) = 1 => Val(out) = c[1] \o " | NVIDIA"
                /\ Len(c) = 2 => Val(out) = c[1] \o " - " \o c[2] \o " | NVIDIA"
                /\ Len(c) = 3 => Val(out) = c[1] \o ": " \o c[2] \o " - " \o c[3] \o " | NVIDIA"
                /\ EndsWith(Val(out), " | NVIDIA")
                /\ StartsWith(Val(out), Val(BaseTitle(metadata, context)))

\* a title of three components whose base is the frontmatter's title.page
C18_Witness ==
    /\ op = "title"
    /\ out = PyStr("Intro: Sec - Site | NVIDIA")
    /\ Top(arg[2], "title") = PyStr("Guide")

\* the comment that opens each group of the head fragment, and what separates
\* the comment from the text before it
GroupComment ==
    "basic" :> "<!-- SEO Meta Tags -->" @@
    "opengraph" :> "<!-- Open Graph / Facebook -->" @@
    "twitter" :> "<!-- Twitter -->" @@
    "custom" :> "<!-- Content Metadata -->" @@
    "jsonld" :> "<!-- Structured Data (JSON-LD) -->"
GroupOrder == <<"basic", "opengraph", "twitter", "custom", "jsonld">>
GroupGap(g) == IF g = "basic" THEN "\n    " ELSE "\n    \n    "

\* the tags of each group for a frontmatter record and the page context the
\* handler leaves (the tags quote its pagetitle), the JSON-LD block being the
\* one item of the last group
GroupItems(fm, context, g) ==
    LET metadata == normalize_metadata(fm)
    IN IF g = "jsonld" THEN <<Val(build_json_ld(metadata, context))>>
       ELSE Strings(Val(Val(build_meta_tags(metadata, context))[g]))

\* every item on a line of its own
RECURSIVE ItemLines(_)
ItemLines(items) ==
    IF items = <<>> THEN "" ELSE "\n    " \o Head(items) \o ItemLines(Tail(items))

\* the groups from the i-th on: a non-empty group is its comment and its
\* items, an empty group is nothing
RECURSIVE GroupsFrom(_, _, _)
GroupsFrom(fm, context, i) ==
    IF i > Len(GroupOrder) THEN ""
    ELSE LET g == GroupOrder[i]
             items == GroupItems(fm, context, g)
         IN (IF items = <<>> THEN ""
             ELSE GroupGap(g) \o GroupComment[g] \o ItemLines(items))
            \o GroupsFrom(fm, context, i + 1)

\* the handler ran on a page with a doctree and non-empty frontmatter
HandledPage == op = "html" /\ raw.doctree # None /\ Truthy(arg[2])

\* C19: after add_metadata_to_context has run on a page with non-empty
\* frontmatter, the metatags text of the page context is the text that was
\* there before followed by the groups basic, opengraph, twitter, custom and
\* the JSON-LD block, in that order; each non-empty group directly follows its
\* own comment, an empty group adds neither comment nor tags. When the handler
\* raises instead, it has added nothing to the metatags text.
C19_HeadFragmentOrder ==
    HandledPage =>
        LET before == arg[1]
            pre == IF Present(Top(before, "metatags"))
                   THEN Val(Top(before, "metatags")) ELSE ""
        IN IF out # None
           THEN Top(raw.context, "metatags") = Top(before, "metatags")
           ELSE Top(raw.context, "metatags") =
                    PyStr(pre \o GroupsFrom(arg[2], raw.context, 1))

\* a page with metatags text already there, no basic tag, and custom tags
C19_Witness ==
    /\ HandledPage
    /\ out = None
    /\ NonEmpty(Top(arg[1], "metatags"))
    /\ GroupItems(arg[2], raw.context, "basic") = <<>>
    /\ GroupItems(arg[2], raw.context, "custom") # <<>>

----------------------------------------------------------------------------
(* scripts/transform_frontmatter.py: extract_frontmatter *)

\* the chunks a markdown file is put together from, at most
MaxChunks == 5

\* s[a:b] and s[a:] on a str, for a, b >= 0
Slice(s, a, b) ==
    LET e == IF b < Len(s) THEN b ELSE Len(s)
    IN IF a >= e THEN "" ELSE SubSeq(s, a + 1, e)
SliceFrom(s, a) == Slice(s, a, Len(s))

\* the characters of a string, as a set
Chars(s) == {SubSeq(s, i, i) : i \in 1..Len(s)}

\* c is one of the characters chars
OneOf(c, chars) == c \in chars

Letters == Chars("abcdefghijklmnopqrstuvwxyzABCDEFGHIJKLMNOPQRSTUVWXYZ")

DigitChars == Chars("0123456789")

WordChars == Letters \cup DigitChars \cup {"_"}

\* \w of the re module, on ASCII text
IsWord(c) == OneOf(c, WordChars)

\* what each pattern asks of the character after "\n---":
\* (?=\()  (?=[#\w])  \n
Follows(pattern, c) ==
    CASE pattern = "paren" -> c = "("
      [] pattern = "word" -> c = "#" \/ IsWord(c)
      [] pattern = "line" -> c = "\n"

\* the pattern matches s at the position i (counted from 0)
MatchAt(pattern, s, i) ==
    /\ i + 5 <= Len(s)
    /\ SubSeq(s, i + 1, i + 4) = "\n---"
    /\ Follows(pattern, SubSeq(s, i + 5, i + 5))

\* re.search(pattern, s).start(): the leftmost match, -1 for no match
re_search(pattern, s) ==
    LET starts == {i \in 0..(Len(s) - 5) : MatchAt(pattern, s, i)}
    IN IF starts = {} THEN -1
       ELSE CHOOSE i \in starts : \A j \in starts : i <= j

\* the lines of a text: text.split("\n")
Lines(s) ==
    LET breaks == {i \in 1..Len(s) : Char(s, i) = "\n"}
        n == Cardinality(breaks)
        Break(k) == IF k = 0 THEN 0
                    ELSE IF k = n + 1 THEN Len(s) + 1
                    ELSE CHOOSE p \in breaks : Cardinality({q \in breaks : q < p}) = k - 1
    IN [k \in 1..(n + 1) |->
          IF Break(k - 1) + 1 > Break(k) - 1 THEN ""
          ELSE SubSeq(s, Break(k - 1) + 1, Break(k) - 1)]

\* The fragment of YAML the model reads exactly: blank lines, lines
\* `key: value` and blocks `key:` followed by lines `  subkey: value`, where a
\* value is a plain word or phrase, a number, a YAML word for a bool or null,
\* a double-quoted string without escapes, or an inline list of such items.
\* A dict is read as <<"object", pairs>>, its pairs in the order of the text.
\* Other stands for a text outside the fragment.
Other == <<"other", "">>

IsOther(v) == v = Other

\* every character of s is one of chars
AllIn(s, chars) == \A i \in 1..Len(s) : OneOf(Char(s, i), chars)

\* sub in s
HasSub(s, sub) ==
    \E i \in 1..(Len(s) - Len(sub) + 1) : SubSeq(s, i, i + Len(sub) - 1) = sub

\* int(s) for a string of digits
RECURSIVE ToInt(_)
ToInt(s) ==
    IF s = "" THEN 0
    ELSE 10 * ToInt(SubSeq(s, 1, Len(s) - 1)) +
         (CHOOSE d \in 0..9 : Digits(d) = Char(s, Len(s)))

YamlTrue == {"yes", "Yes", "YES", "true", "True", "TRUE", "on", "On", "ON"}
YamlFalse == {"no", "No", "NO", "false", "False", "FALSE", "off", "Off", "OFF"}
YamlNull == {"null", "Null", "NULL", "~"}

\* the characters of a plain scalar that is a phrase
PhraseChars == WordChars \cup Chars(" -./")

\* a plain (unquoted) scalar: the YAML 1.1 words, an int, a phrase that
\* starts with a letter; a phrase with ": " in it is a YAML error
yaml_plain(s) ==
    IF s \in YamlNull THEN None
    ELSE IF s \in YamlTrue THEN PyBool(TRUE)
    ELSE IF s \in YamlFalse THEN PyBool(FALSE)
    ELSE IF s # "" /\ AllIn(s, DigitChars) /\ (Len(s) = 1 \/ Char(s, 1) # "0")
         THEN PyInt(ToInt(s))
    ELSE IF s # "" /\ OneOf(Char(s, 1), Letters) /\ Char(s, Len(s)) # " "
            /\ AllIn(s, PhraseChars)
         THEN PyStr(s)
    ELSE IF s # "" /\ OneOf(Char(s, 1), Letters) /\ Char(s, Len(s)) # " "
            /\ AllIn(s, PhraseChars \cup {":"}) /\ HasSub(s, ": ")
         THEN Err("YAMLError")
    ELSE Other

\* a double-quoted scalar without escapes; text right after the closing
\* quote is a YAML error
yaml_quoted(s) ==
    LET inner == SubSeq(s, 2, Len(s) - 1)
    IN IF HasSub(s, "\\") \/ Len(s) < 2 THEN Other
       ELSE IF Char(s, Len(s)) = "\"" /\ ~HasSub(inner, "\"") THEN PyStr(inner)
       ELSE IF \E j \in 2..(Len(s) - 1) :
                   /\ Char(s, j) = "\""
                   /\ ~HasSub(SubSeq(s, 2, j - 1), "\"")
                   /\ Char(s, j + 1) \notin {" ", "\""}
            THEN Err("YAMLError")
       ELSE Other

\* the items of an inline list, split at the commas outside quotes
RECURSIVE FlowItems(_, _, _, _)
FlowItems(s, i, cur, quoted) ==
    IF i > Len(s) THEN <<cur>>
    ELSE IF Char(s, i) = "\"" THEN FlowItems(s, i + 1, cur \o "\"", ~quoted)
    ELSE IF Char(s, i) = "," /\ ~quoted THEN <<cur>> \o FlowItems(s, i + 1, "", FALSE)
    ELSE FlowItems(s, i + 1, cur \o Char(s, i), quoted)

\* one item of an inline list, after the blank that follows the comma
yaml_item(s, first) ==
    LET item == IF ~first /\ Len(s) > 0 /\ Char(s, 1) = " " THEN SubSeq(s, 2, Len(s)) ELSE s
    IN IF item = "" THEN Other
       ELSE IF Char(item, 1) = "\""
            THEN (IF IsError(yaml_quoted(item)) THEN Other ELSE yaml_quoted(item))
       ELSE IF IsError(yaml_plain(item)) THEN Other
       ELSE yaml_plain(item)

\* an inline list [a, b, c]
yaml_flow(s) ==
    LET inner == SubSeq(s, 2, Len(s) - 1)
        items == FlowItems(inner, 1, "", FALSE)
        values == [i \in 1..Len(items) |-> yaml_item(items[i], i = 1)]
    IN IF Len(s) < 2 \/ Char(s, Len(s)) # "]" THEN Other
       ELSE IF inner = "" THEN PyList(<<>>)
       ELSE IF \E i \in 1..Len(values) : IsOther(values[i]) THEN Other
       ELSE PyList(values)

\* the value written after `key: `
yaml_scalar(s) ==
    IF s = "" \/ Char(s, 1) = " " THEN Other
    ELSE IF Char(s, 1) = "\"" THEN yaml_quoted(s)
    ELSE IF Char(s, 1) = "[" THEN yaml_flow(s)
    ELSE yaml_plain(s)

\* where the key of a line `key:` or `key: value` ends, 0 for any other line;
\* a key is a word that starts with a letter and is no YAML word
KeyEnd(line) ==
    LET colons == {i \in 1..Len(line) : Char(line, i) = ":"}
        i == CHOOSE i \in colons : \A j \in colons : i <= j
        key == SubSeq(line, 1, i - 1)
    IN IF colons = {} THEN 0
       ELSE IF i = 1 \/ (i < Len(line) /\ Char(line, i + 1) # " ") THEN 0
       ELSE IF OneOf(Char(key, 1), Letters) /\ AllIn(key, WordChars)
               /\ key \notin (YamlTrue \cup YamlFalse \cup YamlNull)
            THEN i
       ELSE 0

KeyOf(line) == SubSeq(line, 1, KeyEnd(line) - 1)

\* the text after `key: `, "" for a line `key:`
ValueText(line) ==
    IF KeyEnd(line) = Len(line) THEN "" ELSE SubSeq(line, KeyEnd(line) + 2, Len(line))

Indented(line) == Len(line) >= 2 /\ SubSeq(line, 1, 2) = "  "

\* the first line from i on that is not indented
RECURSIVE BlockEnd(_, _)
BlockEnd(lines, i) ==
    IF i > Len(lines) \/ ~Indented(lines[i]) THEN i ELSE BlockEnd(lines, i + 1)

\* the pairs of the lines `  subkey: value` from i up to j (not included)
RECURSIVE SubPairs(_, _, _)
SubPairs(lines, i, j) ==
    IF i >= j THEN <<>>
    ELSE LET line == SubSeq(lines[i], 3, Len(lines[i]))
         IN <<<<IF KeyEnd(line) = 0 \/ ValueText(line) = "" THEN ""
                ELSE KeyOf(line),
                IF KeyEnd(line) = 0 \/ ValueText(line) = "" THEN Other
                ELSE yaml_scalar(ValueText(line))>>>>
            \o SubPairs(lines, i + 1, j)

\* the pairs of the top-level lines from i on; a pair whose key is "" marks a
\* line outside the fragment
RECURSIVE TopPairs(_, _)
TopPairs(lines, i) ==
    IF i > Len(lines) THEN <<>>
    ELSE IF lines[i] = "" THEN TopPairs(lines, i + 1)
    ELSE IF KeyEnd(lines[i]) = 0 THEN <<<<"", Other>>>>
    ELSE IF ValueText(lines[i]) # ""
         THEN <<<<KeyOf(lines[i]), yaml_scalar(ValueText(lines[i]))>>>>
              \o TopPairs(lines, i + 1)
    ELSE IF BlockEnd(lines, i + 1) = i + 1
         THEN <<<<KeyOf(lines[i]), None>>>> \o TopPairs(lines, i + 1)
    ELSE <<<<KeyOf(lines[i]),
             JsonObject(SubPairs(lines, i + 1, BlockEnd(lines, i + 1)))>>>>
         \o TopPairs(lines, BlockEnd(lines, i + 1))

\* the keys of the pairs are different
DistinctKeys(pairs) ==
    \A i, j \in 1..Len(pairs) : pairs[i][1] = pairs[j][1] => i = j

\* what is wrong with a value read: "other", "error" or "" for nothing
Flaw(v) ==
    IF IsOther(v) THEN "other"
    ELSE IF IsError(v) THEN "error"
    ELSE IF Tag(v) = "object"
         THEN (IF ~DistinctKeys(Val(v))
                  \/ \E i \in 1..Len(Val(v)) : IsOther(Val(v)[i][2]) THEN "other"
               ELSE IF \E i \in 1..Len(Val(v)) : IsError(Val(v)[i][2]) THEN "error"
               ELSE "")
    ELSE ""

\* the document of a text: None for blank text, the dict of a block mapping,
\* the value of a text that is one scalar or one inline list, YAMLError, or
\* Other
yaml_document(text) ==
    LET NotBlank(line) == line # ""
        filled == SelectSeq(Lines(text), NotBlank)
        pairs == TopPairs(Lines(text), 1)
        flaws == {Flaw(pairs[i][2]) : i \in 1..Len(pairs)}
    IN IF pairs = <<>> THEN None
       ELSE IF Len(filled) = 1 /\ KeyEnd(filled[1]) = 0
            THEN (IF IsError(yaml_scalar(filled[1])) THEN Other
                  ELSE yaml_scalar(filled[1]))
       ELSE IF "other" \in flaws \/ ~DistinctKeys(pairs) THEN Other
       ELSE IF "error" \in flaws THEN Err("YAMLError")
       ELSE JsonObject(pairs)

\* the dict of an ordered dict, nested dicts included
AsDict(v) ==
    LET Inner(w) == IF Tag(w) = "object"
                    THEN PyDict([k \in {Val(w)[i][1] : i \in 1..Len(Val(w))} |->
                                   (CHOOSE p \in {Val(w)[i] : i \in 1..Len(Val(w))} : p[1] = k)[2]])
                    ELSE w
    IN IF Tag(v) = "object"
       THEN PyDict([k \in {Val(v)[i][1] : i \in 1..Len(Val(v))} |->
                      Inner((CHOOSE p \in {Val(v)[i] : i \in 1..Len(Val(v))} : p[1] = k)[2])])
       ELSE v

\* the words YAML 1.1 resolves to a bool or to null, so not to a str
YamlWords == YamlTrue \cup YamlFalse \cup YamlNull

\* yaml.safe_load(text): the document when the text is in the fragment read
\* exactly, with dicts as plain dicts. Any other text has the outcome `other`:
\* "error" for a YAMLError, "value" for some value.
Loaded(document, text, other) ==
    IF IsOther(document)
    THEN (IF other = "error" THEN Err("YAMLError") ELSE <<"yaml", text>>)
    ELSE AsDict(document)

safe_load(text, other) == Loaded(yaml_document(text), text, other)

SkipFollower(end_pos) == end_pos + 5

\* lines 86, 93: content[end_pos + 4:] skips "\n---" and keeps what follows it
KeepFollower(end_pos) == end_pos + 4

\* lines 64-109: (frontmatter, frontmatter_raw, body)
extract_frontmatter(content, other) ==
    LET paren == re_search("paren", SliceFrom(content, 3))
        word == re_search("word", SliceFrom(content, 3))
        line == re_search("line", SliceFrom(content, 3))
        end_pos == (IF paren # -1 THEN paren ELSE IF word # -1 THEN word ELSE line) + 3
        frontmatter_raw == Slice(content, 4, end_pos)
        body == IF paren # -1 \/ word # -1
                THEN SliceFrom(content, KeepFollower(end_pos))
                ELSE SliceFrom(content, end_pos + 5)
        frontmatter == safe_load(frontmatter_raw, other)
    IN IF ~StartsWith(content, "---") THEN <<None, "", content>>
       ELSE IF paren = -1 /\ word = -1 /\ line = -1 THEN <<None, "", content>>
       ELSE IF IsError(frontmatter) THEN <<None, frontmatter_raw, body>>
       ELSE <<frontmatter, frontmatter_raw, body>>


\* the pieces of a markdown file with frontmatter
Chunks == {"---", "\n---", "\nfoo: bar", "(content here", "\n", "#", "x"}

YamlOutcomes == {"value", "error"}

NoContent == <<"", "">>

InitExtract ==
    /\ raw = [content |-> "", chunks |-> 0]
    /\ out = None
    /\ op = "init"
    /\ arg = NoContent

\* the file grows by one piece
WriteChunk ==
    \E chunk \in Chunks :
        /\ raw.chunks < MaxChunks
        /\ raw' = [content |-> raw.content \o chunk, chunks |-> raw.chunks + 1]
        /\ out' = None
        /\ op' = "write"
        /\ arg' = NoContent

\* extract_frontmatter on the content of the file
ExtractFrontmatter ==
    \E other \in YamlOutcomes :
        /\ out = None
        /\ out' = extract_frontmatter(raw.content, other)
        /\ op' = "extract"
        /\ arg' = <<raw.content, other>>
        /\ UNCHANGED raw

NextExtract == WriteChunk \/ ExtractFrontmatter

SpecExtract == InitExtract /\ [][NextExtract]_vars

----------------------------------------------------------------------------
(* Properties of the frontmatter extraction *)

\* the positions (from 1) after the opening "---" at which "\n---" stands,
\* followed by a character of the variant
Closers(content, variant) ==
    { p \in 4..(Len(content) - 4) :
        /\ SubSeq(content, p, p + 3) = "\n---"
        /\ CASE variant = "a" -> Char(content, p + 4) = "("
             [] variant = "b" -> Char(content, p + 4) = "#" \/ IsWord(Char(content, p + 4))
             [] variant = "c" -> Char(content, p + 4) = "\n" }

First(S) == CHOOSE p \in S : \A q \in S : p <= q

\* the text from position p (from 1) to the end
Rest(content, p) == IF p > Len(content) THEN "" ELSE SubSeq(content, p, Len(content))

\* the document of the example
Example == "---\nfoo: bar\n---(content here"

\* C20: extract_frontmatter tries the closing delimiters in the order (a) "---"
\* followed by "(", (b) "---" followed by "#" or a word character, (c) "---" on
\* a line of its own, and the first variant that matches anywhere wins, at its
\* first match. For (a) and (b) the body starts with the character that
\* followed "---", for (c) it starts after the newline that ends the delimiter
\* line. The example document yields {foo: bar} and the body "(content here".
C20_DelimiterPriority ==
    (op = "extract" /\ StartsWith(arg[1], "---")) =>
        LET content == arg[1]
            a == Closers(content, "a")
            b == Closers(content, "b")
            c == Closers(content, "c")
            body == out[3]
        IN /\ a # {} =>
                /\ body = Rest(content, First(a) + 4)
                /\ Char(body, 1) = "("
                /\ out[2] = Slice(content, 4, First(a) - 1)
           /\ (a = {} /\ b # {}) =>
                /\ body = Rest(content, First(b) + 4)
                /\ Char(body, 1) = "#" \/ IsWord(Char(body, 1))
                /\ out[2] = Slice(content, 4, First(b) - 1)
           /\ (a = {} /\ b = {} /\ c # {}) =>
                /\ body = Rest(content, First(c) + 5)
                /\ out[2] = Slice(content, 4, First(c) - 1)
           /\ content = Example =>
                out = <<PyDict("foo" :> PyStr("bar")), "foo: bar", "(content here">>

\* a file in which a proper delimiter line comes before a "---(", and the
\* "---(" is taken
C20_Witness ==
    /\ op = "extract"
    /\ StartsWith(arg[1], "---")
    /\ Closers(arg[1], "a") # {} /\ Closers(arg[1], "c") # {}
    /\ First(Closers(arg[1], "c")) < First(Closers(arg[1], "a"))
    /\ out[3] = "(content here"

\* the example document has been split
ExampleExtracted == op = "extract" /\ arg[1] = Example /\ IsDict(out[1])


\* the first line of a text
FirstLine(content) == Lines(content)[1]

\* C21: extraction requires an opening line of exactly "---": for a text whose
\* first line is anything else, extract_frontmatter returns no metadata, an
\* empty YAML text and the whole text as body; and when the YAML text does not
\* parse it returns no metadata (and does not raise).
C21_ExactOpeningLine ==
    op = "extract" =>
        /\ FirstLine(arg[1]) # "---" => out = <<None, "", arg[1]>>
        /\ (arg[2] = "error" /\ IsError(safe_load(out[2], "error"))) => out[1] = None


----------------------------------------------------------------------------
(* scripts/transform_frontmatter.py: writing the frontmatter back *)

\* some character of chars occurs in s
HasAny(s, chars) == \E i \in 1..Len(s) : OneOf(Char(s, i), chars)

Quoted(s) == "\"" \o s \o "\""

\* line 232
ListSpecial == Chars(",[]:#")

\* line 301; the backquote cannot stand in a string of this module, and no
\* value of the model holds one
YamlSpecial == Chars(":#[]{},&*!|>'\"%@")

\* line 304
LeadingSpecial == Chars("-?: ")

\* lines 226-238
format_list_inline(items) ==
    LET One(item) == IF Tag(item) = "str"
                     THEN (IF HasAny(Val(item), ListSpecial) THEN Quoted(Val(item))
                           ELSE Val(item))
                     ELSE Format(item)
    IN "[" \o JoinWith(", ", [i \in 1..Len(Val(items)) |-> One(Val(items)[i])]) \o "]"

\* lines 297-307
json_safe_str(value) ==
    IF Tag(value) # "str" THEN value
    ELSE IF HasAny(Val(value), YamlSpecial) THEN PyStr(Quoted(Val(value)))
    ELSE IF Val(value) # "" /\ OneOf(Char(Val(value), 1), LeadingSpecial)
         THEN PyStr(Quoted(Val(value)))
    ELSE value

\* lines 249-260
field_order == <<"title", "description", "social", "topics", "tags", "content",
                 "facets", "status", "dates", "only">>

\* the keys of an ordered dict, in its order
KeysOf(fm) == [i \in 1..Len(Val(fm)) |-> Val(fm)[i][1]]

\* fm[key] on an ordered dict that has the key
ItemOf(fm, key) == (CHOOSE p \in {Val(fm)[i] : i \in 1..Len(Val(fm))} : p[1] = key)[2]

\* the keys left in the order of the record
KeysAsGiven(fm) == KeysOf(fm)

\* lines 263-271: the keys of `ordered`
OrderedKeys(fm) ==
    LET InFm(field) == InSeq(field, KeysOf(fm))
        Remaining(field) == ~InSeq(field, field_order)
    IN SelectSeq(field_order, InFm) \o SelectSeq(KeysOf(fm), Remaining)

\* the concatenation of a list of lists
RECURSIVE Flatten(_)
Flatten(ll) == IF ll = <<>> THEN <<>> ELSE Head(ll) \o Flatten(Tail(ll))

\* lines 278-283: the lines of the items of a dict value
SubLines(value) ==
    [i \in 1..Len(Val(value)) |->
        "  " \o Val(value)[i][1] \o ": " \o
        (IF IsList(Val(value)[i][2]) THEN format_list_inline(Val(value)[i][2])
         ELSE Format(Val(value)[i][2]))]

\* lines 276-292: the lines of one field
FieldLines(key, value) ==
    IF Tag(value) = "object" THEN <<key \o ":">> \o SubLines(value)
    ELSE IF IsList(value) THEN <<key \o ": " \o format_list_inline(value)>>
    ELSE IF Tag(value) = "str" /\ (HasSub(Val(value), "\n") \/ Len(Val(value)) > 80)
         THEN <<key \o ": " \o Quoted(Val(value))>>
    ELSE <<key \o ": " \o Format(json_safe_str(value))>>

\* lines 241-294, on a dict with its items in insertion order
frontmatter_to_yaml(fm) ==
    LET keys == OrderedKeys(fm)
    IN JoinWith("\n", Flatten([i \in 1..Len(keys) |-> FieldLines(keys[i], ItemOf(fm, keys[i]))]))

\* the order in which transform_frontmatter inserts the keys of new_fm
InsertionOrder == <<"description", "topics", "tags", "content", "facets",
                    "status", "dates", "social", "only", "title">>

\* the order of the keys of the dict new_fm[key]: content and title are built
\* key by key, facets is a copy or {modality}, other dicts are the caller's
NestedOrder(key, fm) ==
    IF key = "content" THEN <<"type", "difficulty", "audience">>
    ELSE IF key = "title" THEN <<"page", "social">>
    ELSE IF InSeq(key, KeysOf(fm)) /\ Tag(ItemOf(fm, key)) = "object"
         THEN KeysOf(ItemOf(fm, key))
    ELSE <<"modality">>

\* the dict d with its items in the order keys
InOrder(d, keys) ==
    LET Has(k) == HasKey(d, k)
        present == SelectSeq(keys, Has)
    IN JsonObject([i \in 1..Len(present) |-> <<present[i], Val(d)[present[i]]>>])

\* transform_frontmatter(fm) with the items of new_fm in insertion order
NewFrontmatter(fm) ==
    LET new_fm == transform_frontmatter(AsDict(fm))
        Has(k) == HasKey(new_fm, k)
        keys == SelectSeq(InsertionOrder, Has)
    IN IF IsError(new_fm) THEN new_fm
       ELSE JsonObject([i \in 1..Len(keys) |->
               <<keys[i],
                 IF IsDict(Val(new_fm)[keys[i]])
                 THEN InOrder(Val(new_fm)[keys[i]], NestedOrder(keys[i], fm))
                 ELSE Val(new_fm)[keys[i]]>>])


\* the keys transform_frontmatter looks up in fm
TestedKeys == {"description", "topics", "categories", "tags", "content",
               "content_type", "difficulty", "personas", "facets", "modality",
               "status", "dates", "social", "only", "title"}

\* key in fm for a str fm (a substring test) or a list fm (a membership test)
KeyIn(key, fm) ==
    IF Tag(fm) = "str" THEN HasSub(Val(fm), key)
    ELSE \E i \in 1..Len(Val(fm)) : Val(fm)[i] = PyStr(key)

\* lines 332-347 for a frontmatter that is no dict: an int, a bool or a float
\* has no `in`; on a str or a list, .get and [key] raise once a key is found
NoDictOutcome(frontmatter) ==
    IF Tag(frontmatter) \notin {"str", "list"} THEN Err("TypeError")
    ELSE IF KeyIn("content", frontmatter) THEN Err("AttributeError")
    ELSE IF \E key \in TestedKeys : KeyIn(key, frontmatter) THEN Err("TypeError")
    ELSE PyBool(FALSE)

\* lines 332-335
is_v2(frontmatter) ==
    InContent(frontmatter, "type") \/ InContent(frontmatter, "difficulty")

\* line 337: the keys whose presence sends a v2 file through the transformation
RewriteKeys == {"categories", "personas", "content_type"}

\* line 337
Skips(frontmatter, force) ==
    /\ is_v2(frontmatter)
    /\ ~force
    /\ \A key \in RewriteKeys : ~HasKey(frontmatter, key)

\* line 351
NewContent(new_yaml, body) == "---\n" \o new_yaml \o "\n---\n" \o body

\* what process_file returns or raises, with the content of the file after it
Done(result, content) == [result |-> result, content |-> content]

\* lines 341-368: the file is transformed and written back
Rewrite(content, body, new_frontmatter, dry_run, fault) ==
    IF IsError(new_frontmatter) THEN Done(new_frontmatter, content)
    ELSE IF Val(new_frontmatter) = <<>> THEN Done(PyBool(FALSE), content)
    ELSE IF dry_run THEN Done(PyBool(TRUE), content)
    ELSE IF fault = "write" THEN Done(PyBool(FALSE), content)
    ELSE Done(PyBool(TRUE), NewContent(frontmatter_to_yaml(new_frontmatter), body))

\* lines 319-339, with extracted the result of extract_frontmatter; a
\* frontmatter outside the YAML read exactly has an unknown result
Process(content, extracted, dry_run, force, fault) ==
    IF fault = "read" THEN Done(PyBool(FALSE), content)
    ELSE IF extracted[1] = None THEN Done(PyBool(FALSE), content)
    ELSE IF Tag(extracted[1]) = "yaml" THEN Done(<<"unknown", "">>, content)
    ELSE IF ~IsDict(extracted[1]) THEN Done(NoDictOutcome(extracted[1]), content)
    ELSE IF Skips(extracted[1], force) THEN Done(PyBool(FALSE), content)
    ELSE Rewrite(content, extracted[3], NewFrontmatter(yaml_document(extracted[2])),
                 dry_run, fault)

\* lines 310-368. fault is "read" or "write" for a file that cannot be read or
\* written
process_file(content, dry_run, force, fault, other) ==
    Process(content, extract_frontmatter(content, other), dry_run, force, fault)

----------------------------------------------------------------------------
(* A markdown file under the rewriter *)

\* the fields of the frontmatter of a file, at most
MaxFields == 2

\* the fields an author may have written, each a line or a block
FrontmatterFields ==
    {"description: About the guide", "description: \"yes\"",
     "description: \"a: b\"", "description:",
     "categories: [Getting Started]", "topics: [a, \"b, c\"]",
     "content_type: tutorial", "content_type: 5", "difficulty: beginner",
     "modality: universal", "personas: [mle-focused]",
     "content:\n  type: Tutorial", "content:\n  audience: [Data Scientist]",
     "facets:\n  modality: text-only",
     "social:\n  description: \"a: b\"", "title:\n  page: Guide",
     "author: Ann Lee", "layout: page", "only: not ga"}

\* the closing delimiter line and the body of the file
Closing == "---\n# Guide\n"

\* the YAML text of a file written field by field
FrontOf(content) == SubSeq(content, 5, Len(content) - Len(Closing) - 1)

FileFaults == {"none", "read", "write"}

NoRun == [content |-> "", dry_run |-> FALSE, force |-> FALSE, fault |-> "none"]

InitRewrite ==
    /\ raw = [content |-> "---\n" \o Closing, keys |-> {}]
    /\ out = None
    /\ op = "init"
    /\ arg = NoRun

\* the author adds a field to the frontmatter
WriteField ==
    \E field \in FrontmatterFields :
        /\ op \in {"init", "write"}
        /\ Cardinality(raw.keys) < MaxFields
        /\ KeyOf(Lines(field)[1]) \notin raw.keys
        /\ raw' = [content |-> SubSeq(raw.content, 1, Len(raw.content) - Len(Closing))
                                 \o field \o "\n" \o Closing,
                   keys |-> raw.keys \cup {KeyOf(Lines(field)[1])}]
        /\ out' = None
        /\ op' = "write"
        /\ arg' = NoRun

\* the record given to frontmatter_to_yaml: the frontmatter as read, or as
\* transformed
RecordOf(read, transformed) ==
    IF transformed /\ Tag(read) = "object" THEN NewFrontmatter(read) ELSE read

\* frontmatter_to_yaml on the frontmatter as read, or as transformed
FrontmatterToYaml ==
    \E transformed \in BOOLEAN :
        \E fm \in {RecordOf(yaml_document(FrontOf(raw.content)), transformed)} :
           /\ op = "write"
           /\ Tag(fm) = "object"
           /\ out' = PyStr(frontmatter_to_yaml(fm))
           /\ op' = "yaml"
           /\ arg' = fm
           /\ UNCHANGED raw

\* process_file on the file as written, and again on the file it rewrote (on
\* a file it left alone, a second run does what the first did). Every
\* frontmatter of these files is YAML the model reads exactly (ReadExactly),
\* so the outcome left open for other texts plays no part.
ProcessFile ==
    \E dry_run \in BOOLEAN, force \in BOOLEAN, fault \in FileFaults :
        \E done \in {process_file(raw.content, dry_run, force, fault, "error")} :
           /\ op = "write" \/ (op = "process" /\ raw.content # arg.content)
           /\ out' = done.result
           /\ raw' = [raw EXCEPT !.content = done.content]
           /\ op' = "process"
           /\ arg' = [content |-> raw.content, dry_run |-> dry_run,
                      force |-> force, fault |-> fault]

NextRewrite == WriteField \/ FrontmatterToYaml \/ ProcessFile

SpecRewrite == InitRewrite /\ [][NextRewrite]_vars

\* every frontmatter read in a run is YAML the model reads exactly, whichever
\* outcome is taken for other texts
ReadExactly ==
    op = "process" =>
        /\ out # <<"unknown", "">>
        /\ process_file(arg.content, arg.dry_run, arg.force, arg.fault, "value").result = out


----------------------------------------------------------------------------
(* Properties of the rewriter *)

\* the top-level keys of a YAML text, in the order of its lines
TopKeys(text) ==
    LET NotIndented(line) == line # "" /\ ~Indented(line)
        top == SelectSeq(Lines(text), NotIndented)
    IN [i \in 1..Len(top) |-> KeyOf(top[i])]

\* the place of x in the list l, 0 when x is not in it
IndexOf(x, l) == IF InSeq(x, l) THEN CHOOSE i \in 1..Len(l) : l[i] = x ELSE 0

\* the place the stated order gives a key of the record fm
Rank(key, fm) ==
    IF InSeq(key, field_order) THEN IndexOf(key, field_order)
    ELSE Len(field_order) + IndexOf(key, KeysOf(fm))

\* C22: the top-level keys of the text frontmatter_to_yaml produces come in the
\* order title, description, social, topics, tags, content, facets, status,
\* dates, only, then every other key in the order it had in the record; every
\* key of the record appears exactly once.
C22_FieldOrder ==
    op = "yaml" =>
        LET emitted == TopKeys(Val(out))
        IN /\ Len(emitted) = Len(KeysOf(arg))
           /\ \A i \in 1..Len(KeysOf(arg)) : InSeq(KeysOf(arg)[i], emitted)
           /\ \A i, j \in 1..Len(emitted) :
                 i < j => Rank(emitted[i], arg) < Rank(emitted[j], arg)

\* a record whose first key is none of the ordered fields and whose second key
\* is one: the two change places in the text
C22_Witness ==
    /\ op = "yaml"
    /\ Len(KeysOf(arg)) = 2
    /\ ~InSeq(KeysOf(arg)[1], field_order)
    /\ InSeq(KeysOf(arg)[2], field_order)
    /\ TopKeys(Val(out)) = <<KeysOf(arg)[2], KeysOf(arg)[1]>>

\* two keys outside the ordered fields keep the order of the record
RemainingKeysKept ==
    /\ op = "yaml"
    /\ KeysOf(arg) = <<"layout", "author">>
    /\ TopKeys(Val(out)) = <<"layout", "author">>

\* a scalar string that is to be written in double quotes
NeedsQuotes(s) ==
    \/ HasAny(s, YamlSpecial)
    \/ s # "" /\ OneOf(Char(s, 1), LeadingSpecial)
    \/ HasSub(s, "\n")
    \/ Len(s) > 80

\* a list with every str item that holds one of , [ ] : # in double quotes
QuotedList(v) ==
    "[" \o JoinWith(", ", [i \in 1..Len(Val(v)) |->
            IF Tag(Val(v)[i]) = "str" /\ HasAny(Val(Val(v)[i]), ListSpecial)
            THEN Quoted(Val(Val(v)[i])) ELSE Format(Val(v)[i])]) \o "]"

\* the line a value is to be written on after `key: `, as far as its quoting
\* is stated: TRUE for a value without a stated form
WrittenAs(prefix, v, lines) ==
    IF Tag(v) = "str" /\ NeedsQuotes(Val(v)) THEN InSeq(prefix \o Quoted(Val(v)), lines)
    ELSE IF IsList(v) THEN InSeq(prefix \o QuotedList(v), lines)
    ELSE TRUE

\* C23: in the text frontmatter_to_yaml produces, every scalar string, at the
\* top level or in a nested record, stands in double quotes when it holds a
\* YAML-special character, starts with - ? : or a blank, has several lines or
\* more than 80 characters; and every list item that holds one of , [ ] : #
\* stands in double quotes.
C23_Quoting ==
    op = "yaml" =>
        \A i \in 1..Len(Val(arg)) :
            LET key == Val(arg)[i][1]
                value == Val(arg)[i][2]
            IN IF Tag(value) = "object"
               THEN \A j \in 1..Len(Val(value)) :
                        WrittenAs("  " \o Val(value)[j][1] \o ": ", Val(value)[j][2],
                                  Lines(Val(out)))
               ELSE WrittenAs(key \o ": ", value, Lines(Val(out)))

\* the record transform_frontmatter makes of the frontmatter of a file, None
\* for a file without frontmatter that parses
Normalized(content) ==
    LET extracted == extract_frontmatter(content, "error")
    IN IF IsDict(extracted[1]) THEN AsDict(NewFrontmatter(yaml_document(extracted[2])))
       ELSE None

\* process_file wrote the file in the last step
Rewritten ==
    /\ op = "process"
    /\ out = PyBool(TRUE)
    /\ ~arg.dry_run

\* C24: the frontmatter written by the rewriter, extracted and transformed
\* again, gives the record the first transformation gave.
C24_RoundTrip ==
    Rewritten => Normalized(raw.content) = Normalized(arg.content)

\* C25: after a run of process_file without --force, a second run without
\* --force leaves the bytes of the file as they are.
C25_Idempotent ==
    (op = "process" /\ ~arg.force) =>
        \A dry_run \in BOOLEAN, fault \in FileFaults :
            process_file(raw.content, dry_run, FALSE, fault, "error").content = raw.content

\* the keys of the legacy schema
LegacyKeys == {"categories", "personas", "difficulty", "content_type", "modality"}

\* the frontmatter of the file process_file was given
Given == extract_frontmatter(arg.content, "error")[1]

\* C26: without --force, process_file leaves a file alone and reports it
\* unmodified when its frontmatter has content.type or content.difficulty and
\* none of the keys categories, personas, difficulty, content_type, modality;
\* a file with one of these keys is transformed; with --force a file in the
\* new schema is transformed as well.
C26_SkipAlreadyV2 ==
    (op = "process" /\ arg.fault = "none" /\ IsDict(Given) /\ is_v2(Given)) =>
        IF ~arg.force /\ \A key \in LegacyKeys : ~HasKey(Given, key)
        THEN out = PyBool(FALSE) /\ raw.content = arg.content
        ELSE /\ out = PyBool(TRUE)
             /\ ~arg.dry_run =>
                   raw.content = NewContent(
                       frontmatter_to_yaml(NewFrontmatter(
                           yaml_document(extract_frontmatter(arg.content, "error")[2]))),
                       extract_frontmatter(arg.content, "error")[3])


----------------------------------------------------------------------------
(* A run of the rewriter over the markdown files found *)

\* the markdown files of a run, at most
MaxFiles == 3

\* the files a run may find: legacy frontmatter (readable and writable, not
\* readable, not writable), frontmatter in the new schema, no frontmatter,
\* YAML that does not parse, a content_type that is no string, and a
\* frontmatter that is a number or a list
MarkdownFiles ==
    {[content |-> "---\ncontent_type: tutorial\n---\n# Guide\n", fault |-> "none"],
     [content |-> "---\ncontent_type: tutorial\n---\n# Guide\n", fault |-> "read"],
     [content |-> "---\ncontent_type: tutorial\n---\n# Guide\n", fault |-> "write"],
     [content |-> "---\ncontent:\n  type: Tutorial\n---\n# Guide\n", fault |-> "none"],
     [content |-> "# Guide\n", fault |-> "none"],
     [content |-> "---\nsocial:\n  description: a: b\n---\n# Guide\n", fault |-> "none"],
     [content |-> "---\ncontent_type: 5\n---\n# Guide\n", fault |-> "none"],
     [content |-> "---\n5\n---\n# Guide\n", fault |-> "none"],
     [content |-> "---\n[gpu, cpu]\n---\n# Guide\n", fault |-> "none"]}

\* lines 439-441: the loop from the file i on. raised is the exception that
\* left process_file, processed the number of files process_file was called
\* on; done is what process_file did on the file i
RECURSIVE MainLoop(_, _, _, _, _)
RECURSIVE AfterFile(_, _, _, _, _, _)
AfterFile(files, i, dry_run, force, modified, done) ==
    IF IsError(done.result)
    THEN [files |-> files, raised |-> done.result, processed |-> i, modified |-> modified]
    ELSE MainLoop([files EXCEPT ![i].content = done.content], i + 1, dry_run, force,
                  IF done.result = PyBool(TRUE) THEN modified + 1 ELSE modified)

MainLoop(files, i, dry_run, force, modified) ==
    IF i > Len(files)
    THEN [files |-> files, raised |-> None, processed |-> Len(files), modified |-> modified]
    ELSE AfterFile(files, i, dry_run, force, modified,
                   process_file(files[i].content, dry_run, force, files[i].fault, "error"))

\* lines 443-444: the exit code, or the exception that ended the run
Exit(run) ==
    [code |-> IF run.raised = None THEN PyInt(0) ELSE run.raised,
     files |-> run.files, processed |-> run.processed, modified |-> run.modified]

\* lines 420-444 on the files found
main(files, dry_run, force) ==
    IF files = <<>>
    THEN [code |-> PyInt(1), files |-> files, processed |-> 0, modified |-> 0]
    ELSE Exit(MainLoop(files, 1, dry_run, force, 0))

NoMain == [files |-> <<>>, dry_run |-> FALSE, force |-> FALSE]

InitMain ==
    /\ raw = <<>>
    /\ out = None
    /\ op = "init"
    /\ arg = NoMain

\* find_markdown_files comes upon one more file
FindFile ==
    \E file \in MarkdownFiles :
        /\ op \in {"init", "find"}
        /\ Len(raw) < MaxFiles
        /\ raw' = Append(raw, file)
        /\ op' = "find"
        /\ UNCHANGED <<out, arg>>

\* main() over the files found
Main ==
    \E dry_run \in BOOLEAN, force \in BOOLEAN :
        \E run \in {main(raw, dry_run, force)} :
           /\ op \in {"init", "find"}
           /\ out' = [code |-> run.code, processed |-> run.processed,
                      modified |-> run.modified]
           /\ raw' = run.files
           /\ op' = "main"
           /\ arg' = [files |-> raw, dry_run |-> dry_run, force |-> force]

NextMain == FindFile \/ Main

SpecMain == InitMain /\ [][NextMain]_vars

\* C27: over a non-empty list of markdown files, main calls process_file on
\* every file in order and returns 0, whatever the state of a file (unreadable,
\* unwritable, malformed YAML, values or frontmatter of an unexpected shape);
\* main returns 1 only when no markdown file was found.
C27_NoFatalFile ==
    op = "main" =>
        IF arg.files = <<>> THEN out.code = PyInt(1)
        ELSE out.code = PyInt(0) /\ out.processed = Len(arg.files)

\* a run over files none of which has a value or a frontmatter of an
\* unexpected shape
ExpectedShapes ==
    \A i \in 1..Len(arg.files) :
        ~IsError(process_file(arg.files[i].content, arg.dry_run, arg.force,
                              arg.files[i].fault, "error").result)


----------------------------------------------------------------------------
(* Properties across documents and delimiters *)

\* the document whose record a written file holds, "" for a file that holds
\* no record (the array of the root index, a partial file)
OwnerOf(file) ==
    IF file[1] = "json" /\ IsDict(file[3]) /\ HasKey(file[3], "id")
    THEN Val(Val(file[3])["id"])
    ELSE ""

\* C28: the files write_json_file writes for a document (its main file and, in
\* separate-content mode, its *.content.json file) are no files written for
\* another document: a call leaves every file that holds the record of
\* another document as it is.
C28_IndependentPaths ==
    [][op' = "write" =>
        \A path \in DOMAIN out.files :
            OwnerOf(out.files[path]) \notin {"", arg'[1]} =>
                out'.files[path] = out.files[path]]_vars

\* C29: the list _get_parent_path computes for a document never holds the id
\* of the document itself and never holds an id twice.
C29_NoSelfAncestry ==
    op = "parents" =>
        /\ ~InSeq(arg[1], out)
        /\ \A i, j \in 1..Len(out) : out[i] = out[j] => i = j

\* the positions (from 1) at which any closing delimiter stands
AnyCloser(content) ==
    Closers(content, "a") \cup Closers(content, "b") \cup Closers(content, "c")

\* C30: for a document that starts with a line "---", the YAML text
\* extract_frontmatter returns is the text between the opening line and the
\* earliest closing delimiter of any of the three variants.
C30_EarliestDelimiter ==
    (op = "extract" /\ FirstLine(arg[1]) = "---" /\ AnyCloser(arg[1]) # {}) =>
        out[2] = Slice(arg[1], 4, First(AnyCloser(arg[1])) - 1)

====
